---- MODULE Spec2Model ----
(***************************************************************************)
(* A model of pv's transfer engine (src/pv/transfer.c) and of the main     *)
(* control loop that drives it (src/pv/loop.c), with the signal handlers   *)
(* and the environment (input files, the output file or pipe, its          *)
(* consumer) as further actions, and of the loop that watches other        *)
(* processes' file descriptors (pv_watchfd_loop).                          *)
(*                                                                         *)
(* Byte counts are scaled: files hold a few bytes, the buffer a few slots. *)
(* Time is counted in units of RATE_GRANULARITY (100 ms).  size_t          *)
(* arithmetic wraps modulo SizeModulus.                                    *)
(***************************************************************************)
EXTENDS Integers, Sequences, FiniteSets, TLC

(* ------------------------------ bounds -------------------------------- *)

\* Latest clock value the model distinguishes (units of 100 ms).
MaxTime == 2

(* ------------------------- program constants -------------------------- *)

\* pv-internal.h:27, multiples of the rate that may be sent in one burst.
RATE_BURST_WINDOW == 5
\* pv-internal.h:35, capacity of the line position ring (scaled).
MAX_LINE_POSITIONS == 2
\* RATE_GRANULARITY is 1/10 s: the number of rate chunks in a second.
CHUNKS_PER_SECOND == 10

\* size_t wraps around; the width is scaled with the byte counts.
SizeModulus == 2 ^ 10

Min(a, b) == IF a < b THEN a ELSE b
Max(a, b) == IF a > b THEN a ELSE b

\* All the input, the files one after the other.
RECURSIVE Concat(_)
Concat(files) ==
    IF files = <<>> THEN <<>> ELSE Head(files) \o Concat(Tail(files))

\* A cast to size_t.
SizeT(x) == x % SizeModulus

\* The bytes files are made of: a newline, a NUL and an ordinary byte.
Bytes == {"a", "nl", "nul"}

\* errno values the model distinguishes; "EOTHER" is any other error.
NoError == "none"

\* A string that is not set (NULL) or is empty.
NoText == ""

\* Bits of the exit status, kept as a set.
PV_ERROREXIT_TRANSFER == "transfer"
PV_ERROREXIT_MEMORY == "memory"
PV_ERROREXIT_SIGNAL == "signal"
PV_ERROREXIT_ACCESS == "access"
PV_ERROREXIT_REMOTE_OR_PID == "remote_or_pid"

VARIABLES
    control,    \* the control settings (struct pvstate_s .control)
    transfer,   \* the transfer state (struct pvstate_s .transfer)
    flags,      \* the flags word written by signal handlers
    status,     \* status.exit_status, a set of bits
    loop,       \* the local variables of pv_main_loop, and its position
    display,    \* the display state the loop reads
    env,        \* the input files, the output, and the output's consumer
    watch,      \* the local variables of pv_watchfd_loop, and its position
    remote,     \* a pv sending to this one, the control files and signals
    signal,     \* the stop times (.signal) and the signals being delivered
    calc,       \* the calculated state (struct pvstate_s .calc)
    hist        \* history of the run, read by the properties only

vars ==
    <<control, transfer, flags, status, loop, display, env, watch, remote,
      signal, calc, hist>>

(* ----------------------------- the input ------------------------------ *)

\* The file the loop is reading.
CurFile(e) == e.files[e.cur]

\* Whether the byte at 0-based offset off of the current file is unreadable.
IsBad(e, off) == off \in e.bad[e.cur]

\* The number of bytes readable in one piece from the current offset: up to
\* the end of the file or the next unreadable byte.
Readable(e) ==
    LET len == Len(CurFile(e))
        stops == {k \in e.in_off .. len : k = len \/ IsBad(e, k)}
    IN  IF e.in_off >= len THEN 0
        ELSE (CHOOSE k \in stops : \A j \in stops : k <= j) - e.in_off

\* The bytes of the current file from the current offset, n of them.
InputBytes(e, n) == SubSeq(CurFile(e), e.in_off + 1, e.in_off + n)

\* Room left in the output: a pipe holds PipeCapacity unread bytes.
PipeCapacity == 2

OutputRoom(e, count) ==
    IF e.output_is_pipe THEN PipeCapacity - e.pipe_unread ELSE count

\* n bytes reach the output.
Emit(e, bytes) ==
    [e EXCEPT !.out = e.out \o bytes,
              !.pipe_unread = IF e.output_is_pipe
                              THEN e.pipe_unread + Len(bytes) ELSE 0]

(* ------------------------ the state pv_transfer sees ------------------ *)

\* pv_transfer and its helpers are operators on one record s holding what
\* the C functions reach through their arguments: control, transfer, flags,
\* status, the caller's eof_in, eof_out and lineswritten, and the
\* environment.  ret is the value returned, rc a helper's return code.

Ok(n) == [err |-> NoError, n |-> n]
Fail(e) == [err |-> e, n |-> -1]

(* ----------------------- pv__transfer_read_repeated ------------------- *)

\* transfer.c 129-141: a read() that a signal interrupts, or that finds
\* nothing to be had on a descriptor that does not block, fails with one
\* of e.interrupts; it may be the first read() or one after others have
\* read some of the count bytes, short of the end of the file.
Interrupted(e, count) ==
    IF count = 0 \/ e.in_off >= Len(CurFile(e)) THEN {}
    ELSE {[err |-> x, n |-> -1, adv |-> k] :
             x \in e.interrupts, k \in 0 .. Min(Readable(e), count - 1)}

\* What repeated read() calls for count bytes can give: the value returned
\* and the number of bytes by which the file offset advanced.  A read() that
\* fails after earlier ones succeeded returns the error alone.
pv__transfer_read_repeated(e, count) ==
    LET avail == Readable(e)
        most == Min(avail, count)
        atEnd == e.in_off >= Len(CurFile(e))
    IN  Interrupted(e, count) \cup
        IF count = 0 THEN {[err |-> NoError, n |-> 0, adv |-> 0]}
        ELSE IF avail = 0
        THEN IF atEnd THEN {[err |-> NoError, n |-> 0, adv |-> 0]}
             ELSE {[err |-> "EIO", n |-> -1, adv |-> 0]}
        ELSE {[err |-> NoError, n |-> n, adv |-> n] : n \in 1 .. most}
             \cup (IF avail < count /\ IsBad(e, e.in_off + avail)
                   THEN {[err |-> "EIO", n |-> -1, adv |-> avail]}
                   ELSE {})

(* ----------------------------- splice --------------------------------- *)

\* What splice(fd, output_fd, len) can give.  It moves bytes only when one
\* end is a pipe; the inputs here are regular files.
SpliceOutcomes(e, len) ==
    LET most == Min(Min(Readable(e), len), OutputRoom(e, len))
    IN  {Fail("EINVAL")}
        \cup (IF e.output_is_pipe
              THEN {Fail("EAGAIN"), Fail("EINTR")}
                   \cup {Ok(n) : n \in 1 .. most}
                   \cup (IF len = 0 \/ e.in_off >= Len(CurFile(e))
                         THEN {Ok(0)} ELSE {})
              ELSE {})

(* --------------------------- pv__transfer_read ------------------------ *)

\* transfer.c 342-358: the most the read may fetch.
BytesCanRead(c, t) ==
    LET room == SizeT(t.buffer_size - t.read_position)
        bytes_remaining_to_read == c.size - t.total_bytes_read
    IN  IF c.stop_at_size /\ ~c.linemode /\ room > bytes_remaining_to_read
        THEN SizeT(bytes_remaining_to_read)
        ELSE room

\* A splice() tried without regard to an earlier failure.
SpliceTriedAfterFailure(c, t, fd) ==
    /\ ~c.linemode
    /\ ~c.no_splice
    /\ t.to_write = 0

\* transfer.c 364-366: whether splice() is tried.
SpliceTried(c, t, fd) ==
    /\ ~c.linemode
    /\ ~c.no_splice
    /\ fd # t.splice_failed_fd
    /\ t.to_write = 0

\* transfer.c 369-373: the length splice() is asked for.
BytesToSplice(c, t, max_to_write) ==
    IF c.rate_limit > 0 \/ max_to_write # 0
    THEN SizeT(max_to_write)
    ELSE BytesCanRead(c, t)

\* A schedule that stays at one byte for five errors.
AdaptiveSkipFiveSingles(n) ==
    IF n < 10 THEN (IF n < 6 THEN 1 ELSE 2)
    ELSE IF n < 20 THEN 2 ^ (n - 10)
    ELSE 512

\* transfer.c 537-548: the skip amount of the adaptive schedule, n being
\* read_errors_in_a_row, which counts the error in hand.
AdaptiveSkip(n) ==
    IF n < 10 THEN (IF n < 5 THEN 1 ELSE 2)
    ELSE IF n < 20 THEN 2 ^ (n - 10)
    ELSE 512

\* transfer.c 532-548: the skip amount before alignment and trimming.
SkipChosen(c, t) ==
    IF c.error_skip_block > 0 THEN c.error_skip_block
    ELSE AdaptiveSkip(t.read_errors_in_a_row)

\* transfer.c 532-567: the amount to skip past a read error at orig_offset.
AmountToSkip(c, t, orig_offset, bytes_can_read) ==
    LET chosen == SkipChosen(c, t)
        skip_offset == (orig_offset + chosen)
                       - ((orig_offset + chosen) % chosen)
        aligned == IF chosen > 1 /\ skip_offset > orig_offset
                   THEN skip_offset - orig_offset ELSE chosen
    IN  Min(aligned, bytes_can_read)

\* An end of input that ends the output too, whatever the buffer holds.
EndOfInputAndOutput(s) == [s EXCEPT !.eof_in = TRUE, !.eof_out = TRUE]

\* transfer.c 437-439 and alike: the input has ended; so has the output if
\* the buffer holds nothing unwritten.
EndOfInput(s) ==
    [s EXCEPT !.eof_in = TRUE,
              !.eof_out = IF s.transfer.write_position >= s.transfer.read_position
                          THEN TRUE ELSE s.eof_out]

Zeroes(n) == [i \in 1 .. n |-> "nul"]

\* A count of the bytes read that leaves out what was just read.
BytesReadUncounted(t, nread) == t.total_bytes_read

\* transfer.c 458-459: the counter of all bytes read so far.
BytesReadAfter(t, nread) == t.total_bytes_read + nread

\* A trace shown only when skip-errors was given twice or more.
TraceShownFromTwo(c) == c.skip_errors >= 2

\* transfer.c 612-620: whether the range just skipped is reported.
TraceShown(c) == c.skip_errors < 2

\* transfer.c 430-635: what pv__transfer_read does with the result nread
\* (and errno err) of its splice() or read(), data being the bytes a read()
\* put in the buffer.
ReadResult(s, nread, err, data, do_not_skip_errors, bytes_can_read) ==
    LET t == s.transfer
        c == s.control
    IN  IF nread = 0 THEN [EndOfInput(s) EXCEPT !.rc = 1]
        ELSE IF nread > 0
        THEN [s EXCEPT !.transfer.read_errors_in_a_row = 0,
                       !.transfer.read_position =
                           IF t.splice_used THEN @ ELSE @ + nread,
                       !.transfer.buffer = @ \o data,
                       !.transfer.total_bytes_read = BytesReadAfter(t, nread),
                       !.rc = 1]
        ELSE IF err \in {"EINTR", "EAGAIN"} THEN [s EXCEPT !.rc = 0]
        ELSE
            LET s1 == [s EXCEPT !.status = @ \cup {PV_ERROREXIT_TRANSFER},
                                !.transfer.read_errors_in_a_row = @ + 1,
                                !.hist.read_errno = err,
                                !.rc = 1]
                s2 == [s1 EXCEPT !.transfer.read_error_warning_shown = TRUE,
                                 !.hist.warnings =
                                     IF t.read_error_warning_shown
                                     THEN @ ELSE @ + 1,
                                 !.hist.file_warnings[s.env.cur] =
                                     IF t.read_error_warning_shown
                                     THEN @ ELSE @ + 1,
                                 !.hist.file_errors[s.env.cur] = @ + 1,
                                 !.hist.skip_chosen =
                                     IF s.env.input_seekable
                                     THEN SkipChosen(c, s1.transfer) ELSE @]
                orig_offset == s.env.in_off
                amount_to_skip ==
                    AmountToSkip(c, s1.transfer, orig_offset, bytes_can_read)
            IN  IF do_not_skip_errors THEN EndOfInput(s1)
                ELSE IF ~s.env.input_seekable THEN EndOfInput(s2)
                ELSE IF amount_to_skip > 0
                THEN [s2 EXCEPT
                        !.env.in_off = orig_offset + amount_to_skip,
                        !.transfer.buffer = @ \o Zeroes(amount_to_skip),
                        !.transfer.read_position = @ + amount_to_skip,
                        !.hist.skipped = @ + amount_to_skip,
                        !.hist.traces = IF TraceShown(c) THEN @ + 1 ELSE @]
                ELSE EndOfInput(s2)

\* transfer.c 418-422: the read() path, on the state st reached after the
\* splice() attempt, if any.
ReadPath(st, do_not_skip_errors, bytes_can_read) ==
    {ReadResult([st EXCEPT !.env.in_off = @ + r.adv],
                r.n, r.err,
                IF r.err = NoError THEN InputBytes(st.env, r.n) ELSE <<>>,
                do_not_skip_errors, bytes_can_read)
        : r \in pv__transfer_read_repeated(st.env, bytes_can_read)}

\* transfer.c 378-417: the outcome sp of splice(), with or without an EIO
\* from the fdatasync() that follows a successful one.
SplicePath(s, fd, sp, sync_eio, bytes_can_read) ==
    LET do_not_skip_errors == (s.control.skip_errors = 0)
        tried == [s EXCEPT
                    !.hist.splice_tried = TRUE,
                    !.hist.splice_failed = IF sp.n < 0 THEN @ \cup {fd} ELSE @,
                    !.hist.splice_einval =
                        IF sp.n < 0 /\ sp.err = "EINVAL"
                        THEN @ \cup {fd} ELSE @]
        used == [tried EXCEPT !.transfer.splice_used = TRUE]
        notUsed == [tried EXCEPT !.transfer.splice_used = FALSE]
    IN  IF sp.n < 0 /\ sp.err = "EINVAL"
        THEN ReadPath([notUsed EXCEPT !.transfer.splice_failed_fd = fd],
                      do_not_skip_errors, bytes_can_read)
        ELSE IF sp.n > 0
        THEN LET moved ==
                     [used EXCEPT
                        !.env = [Emit(s.env, InputBytes(s.env, sp.n))
                                     EXCEPT !.in_off = @ + sp.n],
                        !.transfer.written = sp.n,
                        !.transfer.total_bytes_read = @ + sp.n,
                        !.hist.spliced = @ + sp.n,
                        !.hist.sync_errno = IF sync_eio THEN "EIO" ELSE @]
             IN  IF sync_eio
                 THEN {ReadResult(moved, -1, "EIO", <<>>, TRUE, bytes_can_read)}
                 ELSE {ReadResult(moved, sp.n, NoError, <<>>,
                                  do_not_skip_errors, bytes_can_read)}
        ELSE IF sp.n = -1 /\ sp.err = "EAGAIN"
        THEN {ReadResult(used, -1, "EAGAIN", <<>>,
                         do_not_skip_errors, bytes_can_read)}
        ELSE ReadPath(notUsed, do_not_skip_errors, bytes_can_read)

\* transfer.c 331-635: every state pv__transfer_read can leave, rc being its
\* return code.
pv__transfer_read(s, fd, max_to_write) ==
    LET c == s.control
        t == s.transfer
        bytes_can_read == BytesCanRead(c, t)
        s0 == [s EXCEPT !.transfer.splice_used = FALSE]
    IN  IF SpliceTried(c, t, fd)
        THEN UNION {SplicePath(s0, fd, sp, sync_eio, bytes_can_read)
                      : sp \in SpliceOutcomes(s.env,
                                   BytesToSplice(c, t, max_to_write)),
                        sync_eio \in IF c.sync_after_write
                                     THEN BOOLEAN ELSE {FALSE}}
        ELSE ReadPath(s0, c.skip_errors = 0, bytes_can_read)

(* ---------------------- pv__transfer_write_repeated ------------------- *)

\* What repeated write() calls for count bytes can give: the value returned
\* and the number of bytes that reached the output.  A write() interrupted
\* or blocked returns what was written so far; a write() that fails returns
\* the error alone, as does an EIO from the sync after a write().
pv__transfer_write_repeated(e, count, sync_after_write) ==
    LET most == Min(count, OutputRoom(e, count))
    IN  IF e.output_is_pipe /\ e.reader_gone
        THEN {[err |-> "EPIPE", n |-> -1, emitted |-> 0]}
        ELSE {[err |-> NoError, n |-> n, emitted |-> n] : n \in 0 .. most}
             \cup {[err |-> "EOTHER", n |-> -1, emitted |-> k]
                      : k \in 0 .. Min(most, count - 1)}
             \cup (IF sync_after_write
                   THEN {[err |-> "EIO", n |-> -1, emitted |-> k]
                            : k \in 0 .. most}
                   ELSE {})

(* ------------------------- line accounting ---------------------------- *)

\* transfer.c 829-833.
Separator(c) == IF c.null_terminated_lines THEN "nul" ELSE "nl"

\* transfer.c 835-900: the scan of the bytes just written, one byte a step;
\* r holds the ring, its head and length, the output position and the count
\* of separators found.
RECURSIVE ScanWritten(_, _, _)
ScanWritten(r, bytes, sep) ==
    IF bytes = <<>> THEN r
    ELSE LET found == Head(bytes) = sep
             stored == [r EXCEPT
                 !.line_positions[r.line_positions_head] = r.last_output_position,
                 !.line_positions_head =
                     IF r.line_positions_head + 1 >= MAX_LINE_POSITIONS
                     THEN 0 ELSE r.line_positions_head + 1,
                 !.line_positions_length =
                     IF @ < MAX_LINE_POSITIONS THEN @ + 1 ELSE @,
                 !.lines = @ + 1]
             next == IF found THEN stored ELSE r
         IN  ScanWritten([next EXCEPT !.last_output_position = @ + 1],
                         Tail(bytes), sep)

EmptyRing == [i \in 0 .. MAX_LINE_POSITIONS - 1 |-> 0]

(* -------------------------- pv__transfer_write ------------------------ *)

\* transfer.c 790-963: a write of nwritten > 0 bytes went through.
WriteDone(s, nwritten) ==
    LET t == s.transfer
        c == s.control
        scan == ScanWritten(
                    [line_positions |-> t.line_positions,
                     line_positions_head |-> t.line_positions_head,
                     line_positions_length |-> t.line_positions_length,
                     last_output_position |-> t.last_output_position,
                     lines |-> 0],
                    SubSeq(t.buffer, t.write_position + 1,
                           t.write_position + nwritten),
                    Separator(c))
        s1 == IF c.linemode
              THEN [s EXCEPT
                      !.transfer.line_positions = scan.line_positions,
                      !.transfer.line_positions_head = scan.line_positions_head,
                      !.transfer.line_positions_length = scan.line_positions_length,
                      !.transfer.line_positions_allocated = TRUE,
                      !.transfer.last_output_position = scan.last_output_position,
                      !.lineswritten = @ + scan.lines]
              ELSE s
        s2 == [s1 EXCEPT !.transfer.write_position = @ + nwritten,
                         !.transfer.written = @ + nwritten,
                         !.rc = 1]
    IN  IF s2.transfer.write_position >= s2.transfer.read_position
        THEN [s2 EXCEPT !.transfer.write_position = 0,
                        !.transfer.read_position = 0,
                        !.transfer.buffer = <<>>,
                        !.eof_out = IF s2.eof_in THEN TRUE ELSE @]
        ELSE s2

\* A closed pipe taken for any other write error.
WriteFailedEpipeAsError(s, nwritten, write_errno) ==
    IF nwritten = 0 \/ write_errno \in {"EINTR", "EAGAIN"}
    THEN [s EXCEPT !.rc = 0]
    ELSE [s EXCEPT !.status = @ \cup {PV_ERROREXIT_TRANSFER},
                   !.eof_out = TRUE,
                   !.transfer.written = -1,
                   !.rc = 1]

\* transfer.c 965-1002: nothing was written.
WriteFailed(s, nwritten, write_errno) ==
    IF nwritten = 0 \/ write_errno \in {"EINTR", "EAGAIN"}
    THEN [s EXCEPT !.rc = 0]
    ELSE IF write_errno = "EPIPE"
    THEN [s EXCEPT !.eof_in = TRUE, !.eof_out = TRUE,
                   !.flags.pipe_closed = 1, !.rc = 0]
    ELSE [s EXCEPT !.status = @ \cup {PV_ERROREXIT_TRANSFER},
                   !.eof_out = TRUE,
                   !.transfer.written = -1,
                   !.rc = 1]

\* transfer.c 654-1002: every state pv__transfer_write can leave.
pv__transfer_write(s) ==
    LET t == s.transfer
        c == s.control
        pending(k) == SubSeq(t.buffer, t.write_position + 1, t.write_position + k)
        after(w) == [s EXCEPT !.env = Emit(s.env, pending(w.emitted)),
                              !.hist.write_errno = w.err]
    IN  IF c.discard_input
        THEN {IF t.to_write > 0 THEN WriteDone(s, t.to_write)
              ELSE WriteFailed(s, 0, NoError)}
        ELSE IF t.to_write > 0
        THEN {IF w.n > 0 THEN WriteDone(after(w), w.n)
              ELSE WriteFailed(after(w), w.n, w.err)
                 : w \in pv__transfer_write_repeated(s.env, t.to_write,
                                                     c.sync_after_write)}
        ELSE {WriteFailed(s, 0, NoError)}

(* ------------------------------ pv_transfer --------------------------- *)

Return(s, v) == [s EXCEPT !.running = FALSE, !.ret = v]

\* transfer.c 1121-1125: a new fd restarts the error skipping.
ResetSkipOnNewFd(s, fd) ==
    IF fd # s.transfer.last_read_skip_fd
    THEN [s EXCEPT !.transfer.last_read_skip_fd = fd,
                   !.transfer.read_errors_in_a_row = 0,
                   !.transfer.read_error_warning_shown = FALSE]
    ELSE s

\* transfer.c 1131-1140: the first call allocates the buffer, or fails.
AllocateBuffer(s) ==
    IF s.transfer.allocated THEN {s}
    ELSE {[s EXCEPT !.transfer.allocated = TRUE,
                    !.transfer.buffer_size = s.control.target_buffer_size],
          Return([s EXCEPT !.status = @ \cup {PV_ERROREXIT_MEMORY}], -1)}

\* transfer.c 1149-1178: a larger target size moves the buffer to a new,
\* larger one, unless that cannot be allocated.
ResizeBuffer(s) ==
    IF ~s.running \/ s.transfer.buffer_size >= s.control.target_buffer_size
    THEN {s}
    ELSE {[s EXCEPT !.transfer.buffer_size = s.control.target_buffer_size],
          [s EXCEPT !.control.target_buffer_size = s.transfer.buffer_size]}

\* transfer.c 1205-1210: the number of bytes this call may write.
ToWrite(c, t, allowed) ==
    LET pending == t.read_position - t.write_position
    IN  IF (c.rate_limit > 0 \/ allowed > 0) /\ pending > allowed
        THEN allowed ELSE pending

\* transfer.c 1180-1222: up to the select() call; sel is its outcome.
Select(s0, fd, allowed, sel) ==
    LET s == IF s0.control.linemode THEN [s0 EXCEPT !.lineswritten = 0] ELSE s0
        st == [s EXCEPT !.transfer.to_write =
                            ToWrite(s.control, s.transfer, allowed)]
    IN  IF s.eof_in /\ s.eof_out THEN Return(s, 0)
        ELSE IF sel.err = "EINTR" THEN Return(st, 0)
        ELSE IF sel.err # NoError
        THEN Return([st EXCEPT !.status = @ \cup {PV_ERROREXIT_TRANSFER}], -1)
        ELSE [st EXCEPT !.transfer.written = 0,
                        !.ready_to_read = sel.rd,
                        !.ready_to_write = sel.wr]

\* What select() can report for the state s.
SelectOutcomes(s, allowed) ==
    LET t == s.transfer
        check_read == ~s.eof_in /\ t.read_position < t.buffer_size
        check_write == ~s.eof_out /\ ToWrite(s.control, t, allowed) > 0
        writable == check_write
                    /\ (OutputRoom(s.env, 1) > 0 \/ s.env.reader_gone)
    IN  {[err |-> e, rd |-> FALSE, wr |-> FALSE] : e \in {"EINTR", "EOTHER"}}
        \cup {[err |-> NoError, rd |-> rd, wr |-> wr]
                 : rd \in (IF check_read THEN BOOLEAN ELSE {FALSE}),
                   wr \in (IF writable THEN BOOLEAN ELSE {FALSE})}

\* transfer.c 1267-1277: in line mode, write up to the last newline.
LineTrim(s) ==
    LET t == s.transfer
        ends == {k \in 1 .. t.to_write : t.buffer[t.write_position + k] = "nl"}
    IN  IF t.to_write > 0 /\ s.control.linemode
           /\ ~s.control.null_terminated_lines /\ ends # {}
        THEN [s EXCEPT !.transfer.to_write =
                           CHOOSE k \in ends : \A j \in ends : j <= k]
        ELSE s

\* transfer.c 1254-1261: the read, if the input is ready.
ReadStage(s, fd, allowed) ==
    IF ~s.running \/ ~s.ready_to_read THEN {s}
    ELSE {IF r.rc = 0 THEN Return(r, 0) ELSE r
             : r \in pv__transfer_read(s, fd, allowed)}

\* transfer.c 1284-1297: the write, if the output is ready.
WriteStage(s) ==
    LET t == s.transfer
    IN  IF /\ s.running
           /\ s.ready_to_write
           /\ ~t.splice_used
           /\ t.read_position > t.write_position
           /\ t.to_write > 0
        THEN {IF r.rc = 0 THEN Return(r, 0) ELSE r : r \in pv__transfer_write(s)}
        ELSE {s}

\* A compaction that moves the cursors but not the bytes.
CompactCursorsOnly(t) ==
    IF t.write_position > 0
    THEN IF t.write_position < t.read_position
         THEN [t EXCEPT !.buffer = SubSeq(@, 1, t.read_position - t.write_position),
                        !.read_position = @ - t.write_position,
                        !.write_position = 0]
         ELSE [t EXCEPT !.buffer = <<>>, !.write_position = 0,
                        !.read_position = 0]
    ELSE t

\* transfer.c 1303-1315: move the unwritten bytes to the start of the buffer.
Compact(t) ==
    IF t.write_position > 0
    THEN IF t.write_position < t.read_position
         THEN [t EXCEPT !.buffer = SubSeq(@, t.write_position + 1, t.read_position),
                        !.read_position = @ - t.write_position,
                        !.write_position = 0]
         ELSE [t EXCEPT !.buffer = <<>>, !.write_position = 0,
                        !.read_position = 0]
    ELSE t

\* transfer.c 1298-1322.
Finish(s) ==
    IF ~s.running THEN s
    ELSE LET t == Compact(s.transfer)
         IN  Return([s EXCEPT !.transfer = t], t.written)

\* transfer.c 1081-1323: every state pv_transfer can leave; ret is the value
\* it returns.
pv_transfer(s, fd, allowed) ==
    LET start == [ResetSkipOnNewFd(s, fd) EXCEPT !.hist.write_errno = NoError,
                                                 !.hist.read_errno = NoError,
                                                 !.hist.sync_errno = NoError,
                                                 !.hist.splice_tried = FALSE]
        sized == UNION {ResizeBuffer(a) : a \in AllocateBuffer(start)}
        selected == UNION {IF a.running
                           THEN {Select(a, fd, allowed, sel)
                                    : sel \in SelectOutcomes(a, allowed)}
                           ELSE {a}
                              : a \in sized}
        read == UNION {ReadStage(a, fd, allowed) : a \in selected}
        written == UNION {WriteStage(IF a.running THEN LineTrim(a) ELSE a)
                             : a \in read}
    IN  {Finish(a) : a \in written}

(* ------------------------------ the main loop ------------------------- *)

\* The record pv_transfer works on, made of the variables.
S == [control |-> control, transfer |-> transfer, flags |-> flags,
      status |-> status, env |-> env, hist |-> hist,
      eof_in |-> loop.eof_in, eof_out |-> loop.eof_out,
      lineswritten |-> loop.lineswritten,
      running |-> TRUE, ret |-> 0, rc |-> 1,
      ready_to_read |-> FALSE, ready_to_write |-> FALSE]

\* A reading of the monotonic clock: one of the instants the run passes
\* through, not before the last reading.
ClockReadings(now) == {t \in env.instants : t >= now}

\* loop.c 344-358: the leaky bucket, in units of 1/CHUNKS_PER_SECOND byte.
BurstMax(rate_limit) == rate_limit * RATE_BURST_WINDOW * CHUNKS_PER_SECOND

\* A bucket that fills without a cap.
RateTargetUncapped(target, rate_limit) == target + rate_limit

\* loop.c 347-354: the bucket after one more chunk, capped at the burst.
RateTarget(target, rate_limit) ==
    Min(target + rate_limit, BurstMax(rate_limit))

\* A test that forgets that a budget of 0 with no rate limit means no limit.
StopAtSizeForgetsUnlimited(c, total_written, cansend) ==
    /\ 0 < c.size
    /\ c.stop_at_size
    /\ c.size < total_written + cansend

\* loop.c 364-367: whether stop-at-size replaces the budget.
StopAtSizeApplies(c, total_written, cansend) ==
    /\ 0 < c.size
    /\ c.stop_at_size
    /\ \/ c.size < total_written + cansend
       \/ (cansend = 0 /\ c.rate_limit = 0)

\* loop.c 364-375: the budget clamped by stop-at-size.
StopAtSizeClamp(c, total_written, cansend) ==
    IF StopAtSizeApplies(c, total_written, cansend)
    THEN c.size - total_written
    ELSE cansend

\* The buffer size asked for at the start.
BufferSize == 2

\* remote.c 253-334: a message from another pv; a field of 0 is not set.
NoMessage == [rate_limit |-> 0, buffer_size |-> 0]

\* remote.c 315-319: the message's rate limit and buffer size, where set,
\* replace the settings.
pv_remote_check(c, msg) ==
    [c EXCEPT !.rate_limit = IF msg.rate_limit > 0 THEN msg.rate_limit ELSE @,
              !.target_buffer_size =
                  IF msg.buffer_size > 0 THEN msg.buffer_size ELSE @]

\* A loop that never looks at the exit flag.
ExitNeverPolled(f) == FALSE

\* loop.c 341 and 899: the poll of the flag the signal handlers set.
ExitPolled(f) == f.trigger_exit = 1

\* loop.c 329-382: the top of an iteration, up to the call of pv_transfer.
LoopTop ==
    /\ loop.pc = "top"
    /\ IF loop.eof_in /\ loop.eof_out /\ loop.final_update
       THEN /\ loop' = [loop EXCEPT !.pc = "end"]
            /\ UNCHANGED control
       ELSE \E msg \in env.messages \cup {NoMessage},
               now \in ClockReadings(loop.cur_time) :
            LET due == loop.cur_time > loop.next_remotecheck
                c == IF due THEN pv_remote_check(control, msg) ELSE control
                l1 == [loop EXCEPT !.next_remotecheck =
                                       IF due THEN @ + 1 ELSE @]
                rated == c.rate_limit > 0
                fill == rated /\ now > loop.next_ratecheck
                target == IF fill THEN RateTarget(loop.target, c.rate_limit)
                          ELSE loop.target
                l2 == [l1 EXCEPT !.cur_time = IF rated THEN now ELSE @,
                                 !.target = target,
                                 !.next_ratecheck = IF fill THEN @ + 1 ELSE @]
                budget == IF rated THEN target \div CHUNKS_PER_SECOND ELSE 0
                cansend == StopAtSizeClamp(c, transfer.total_written, budget)
                stop == StopAtSizeApplies(c, transfer.total_written, budget)
                        /\ cansend <= 0
                ein == stop \/ loop.eof_in
                eout == stop \/ loop.eof_out
                skip == 0 < c.size /\ c.stop_at_size /\ cansend <= 0
                        /\ ein /\ eout
            IN  /\ (~rated => now = loop.cur_time)
                /\ (~due => msg = NoMessage)
                /\ control' = c
                /\ IF ExitPolled(flags)
                   THEN loop' = [l1 EXCEPT !.pc = "end", !.cansend = 0]
                   ELSE loop' = [l2 EXCEPT !.cansend = cansend,
                                           !.eof_in = ein, !.eof_out = eout,
                                           !.written = IF skip THEN 0 ELSE @,
                                           !.pc = IF skip THEN "post"
                                                  ELSE "transfer"]
    /\ UNCHANGED <<transfer, flags, status, display, env, watch, remote,
                   signal, calc, hist>>

\* loop.c 381-390: the call of pv_transfer, and the return on an error.
Transfer ==
    /\ loop.pc = "transfer"
    /\ \E r \in pv_transfer(S, loop.input_fd, loop.cansend) :
        /\ control' = r.control
        /\ transfer' = r.transfer
        /\ flags' = r.flags
        /\ status' = r.status
        /\ env' = r.env
        /\ hist' = [r.hist EXCEPT !.eof_out_set = r.eof_out /\ ~loop.eof_out]
        /\ loop' = [loop EXCEPT !.eof_in = r.eof_in,
                                !.eof_out = r.eof_out,
                                !.lineswritten = r.lineswritten,
                                !.written = r.ret,
                                !.pc = IF r.ret < 0 THEN "done" ELSE "post"]
    /\ UNCHANGED <<display, watch, remote, signal, calc>>

\* loop.c 452-477: the lines among the last written that the consumer of the
\* pipe has yet to read, from a walk back through the ring of positions.
RECURSIVE LinesNotConsumed(_, _, _)
LinesNotConsumed(t, last_consumed_position, line_from_end) ==
    IF line_from_end >= t.line_positions_length THEN 0
    ELSE LET array_index ==
                 (t.line_positions_head + MAX_LINE_POSITIONS
                    - line_from_end - 1) % MAX_LINE_POSITIONS
         IN  IF t.line_positions[array_index] <= last_consumed_position
             THEN 0
             ELSE 1 + LinesNotConsumed(t, last_consumed_position,
                                       line_from_end + 1)

\* The amount with what waits in the pipe added instead of taken off.
TransferredSignSlip(c, t, output_is_pipe) ==
    IF output_is_pipe /\ ~c.linemode
    THEN t.total_written + t.written_but_not_consumed
    ELSE t.total_written

\* loop.c 431-484: the amount surfaced as transferred.
Transferred(c, t, output_is_pipe) ==
    IF output_is_pipe /\ ~c.linemode
    THEN t.total_written - t.written_but_not_consumed
    ELSE IF /\ output_is_pipe
            /\ c.linemode
            /\ t.written_but_not_consumed > 0
            /\ t.line_positions_allocated
    THEN t.total_written
         - LinesNotConsumed(t, t.last_output_position
                                 - t.written_but_not_consumed, 0)
    ELSE t.total_written

\* A final update that is flagged only when the display is forced.
FinalUpdateOnlyWhenForced(l, c, written_but_not_consumed, output_produced) ==
    IF /\ l.eof_in /\ l.eof_out /\ written_but_not_consumed = 0
       /\ (output_produced \/ c.delay_start = 0)
    THEN [l EXCEPT !.final_update = TRUE, !.next_update = l.cur_time]
    ELSE l

\* loop.c 510-516: all is read and written and the pipe is empty: this is
\* the final update, and the display is forced if it has begun or was not
\* delayed.  l holds the loop's variables, cur_time just read.
FinalUpdate(l, c, written_but_not_consumed, output_produced) ==
    IF l.eof_in /\ l.eof_out /\ written_but_not_consumed = 0
    THEN [l EXCEPT !.final_update = TRUE,
                   !.next_update = IF output_produced \/ c.delay_start = 0
                                   THEN l.cur_time ELSE @]
    ELSE l

\* loop.c 491: the descriptor of the next input, once the last one has been
\* closed: the same number again, or another.
pv_next_file(input_fd) == {input_fd, input_fd + 1}

\* A schedule that a refresh leaves where it was.
NextUpdateKept(next_update, interval, now) == next_update

\* loop.c 587-591: the time of the next refresh, once one is due at now: one
\* interval after the time this one was scheduled for, or now if that is in
\* the past.
NextUpdate(next_update, interval, now) ==
    LET bumped == next_update + interval
    IN  IF bumped < now THEN now ELSE bumped

\* loop.c 392-605: the rest of an iteration, up to the call of pv_display.
Post ==
    /\ loop.pc = "post"
    /\ \E now \in ClockReadings(loop.cur_time),
          next_fd \in pv_next_file(loop.input_fd) :
        LET c == control
            amount == IF c.linemode THEN loop.lineswritten ELSE loop.written
            unread == IF ~env.output_is_pipe THEN transfer.written_but_not_consumed
                      ELSE IF flags.pipe_closed # 0 THEN 0
                      ELSE env.pipe_unread
            t1 == [transfer EXCEPT !.total_written = @ + amount,
                                   !.written_but_not_consumed = unread]
            t2 == [t1 EXCEPT !.transferred =
                                 Transferred(c, t1, env.output_is_pipe)]
            more == loop.eof_in /\ loop.eof_out
                    /\ env.cur < Len(env.files)
            ein == IF more THEN FALSE ELSE loop.eof_in
            eout == IF more THEN FALSE ELSE loop.eof_out
            l0 == [loop EXCEPT
                     !.target = IF c.rate_limit > 0
                                THEN @ - amount * CHUNKS_PER_SECOND ELSE @,
                     !.file_idx = IF more THEN @ + 1 ELSE @,
                     !.input_fd = IF more THEN next_fd ELSE @,
                     !.eof_in = ein, !.eof_out = eout,
                     !.cur_time = now]
            l1 == FinalUpdate(l0, c, unread, display.output_produced)
            waiting == c.wait /\ amount < 1
            begun == c.wait /\ ~waiting
            l2 == IF begun
                  THEN [l1 EXCEPT !.next_update = now + c.interval]
                  ELSE l1
            due == ~waiting /\ ~c.no_display /\ ~(now < l2.next_update)
        IN  /\ transfer' = t2
            /\ control' = IF begun THEN [c EXCEPT !.wait = FALSE] ELSE c
            /\ env' = IF more
                      THEN [env EXCEPT !.cur = @ + 1, !.in_off = 0]
                      ELSE env
            /\ loop' = IF due
                       THEN [l2 EXCEPT !.next_update =
                                           NextUpdate(@, c.interval, now),
                                       !.pc = "display"]
                       ELSE [l2 EXCEPT !.pc = "top"]
    /\ UNCHANGED <<flags, status, display, watch, remote, signal, calc, hist>>

\* pv-internal.h:132, the widest display (65535, scaled).
PVDISPLAY_WIDTH_MAX == 3

\* The widths and heights a terminal may be found to have.
ScreenWidths == {1, PVDISPLAY_WIDTH_MAX, PVDISPLAY_WIDTH_MAX + 1}
ScreenHeights == {2, 3}

\* display.c 205-219: the size of the terminal, or the values passed in if
\* standard error is no terminal or its size cannot be read.
pv_screensize(width, height) ==
    {[width |-> width, height |-> height]}
        \cup [width : ScreenWidths, height : ScreenHeights]

\* A resize that asks for the format to be parsed again.
ResizeAsksReparse(f, c, screen) ==
    IF f.terminal_resized = 0 THEN [flags |-> f, control |-> c]
    ELSE [flags |-> [f EXCEPT !.terminal_resized = 0, !.reparse_display = 1],
          control |-> [c EXCEPT
              !.width = IF c.width_set_manually THEN @
                        ELSE Min(screen.width, PVDISPLAY_WIDTH_MAX),
              !.height = IF c.height_set_manually THEN @ ELSE screen.height]]

\* loop.c 59-81: if a resize was signalled the flag is cleared and the
\* width and height, unless set by hand, become those of the terminal, the
\* width at most PVDISPLAY_WIDTH_MAX.  screen is what pv_screensize finds.
pv__resize_display_on_signal(f, c, screen) ==
    IF f.terminal_resized = 0 THEN [flags |-> f, control |-> c]
    ELSE [flags |-> [f EXCEPT !.terminal_resized = 0],
          control |-> [c EXCEPT
              !.width = IF c.width_set_manually THEN @
                        ELSE Min(screen.width, PVDISPLAY_WIDTH_MAX),
              !.height = IF c.height_set_manually THEN @ ELSE screen.height]]

\* loop.c 593-605, display.c 1285-1295: the display is resized if a resize
\* was signalled, and is produced, the format being parsed again first if
\* reparse_display is set.  What pv_display calculates first is followed in
\* Update.
Display ==
    /\ loop.pc = "display"
    /\ \E screen \in pv_screensize(control.width, control.height) :
         LET r == pv__resize_display_on_signal(flags, control, screen)
         IN  /\ control' = r.control
             /\ flags' = [r.flags EXCEPT !.reparse_display = 0]
             /\ display' = [display EXCEPT
                               !.output_produced = TRUE,
                               !.final_update = loop.final_update,
                               !.transferred = transfer.transferred,
                               !.reparsed = r.flags.reparse_display # 0]
    /\ loop' = [loop EXCEPT !.pc = "top"]
    /\ hist' = IF loop.final_update THEN hist
               ELSE [hist EXCEPT !.displays = @ + 1,
                                 !.displayed_before = hist.displayed_at,
                                 !.displayed_at = loop.cur_time]
    /\ UNCHANGED <<transfer, status, env, watch, remote, signal, calc>>

\* loop.c 608-628: after the loop.
LoopEnd ==
    /\ loop.pc = "end"
    /\ status' = IF flags.trigger_exit = 1
                 THEN status \cup {PV_ERROREXIT_SIGNAL} ELSE status
    /\ loop' = [loop EXCEPT !.pc = "done"]
    /\ UNCHANGED <<control, transfer, flags, display, env, watch, remote,
                   signal, calc, hist>>

(* --------------------------- pv_watchfd_loop -------------------------- *)

\* Latest clock value the watch loop distinguishes (units of 100 ms).
MaxWatchTime == 3

\* Largest file position a watched descriptor is seen at.
MaxPosition == 1

\* Latest clock value of a run that watches one process only.
WatchHorizon == 5

\* No scan of a watched process is followed step by step.  info_array is the
\* block of memory watching[].info_array points to, new_info_array the
\* block extend_info_array holds, freed the blocks given back;
\* stale_walks tells whether a freed block has been walked.
ScanOff ==
    [pc |-> "off", info_array |-> 0, new_info_array |-> 0, freed |-> {},
     stale_walks |-> FALSE]

\* Not watching: pv is transferring.
WatchOff ==
    [pc |-> "off", cur_time |-> 0, next_update |-> 0, next_remotecheck |-> 0,
     prev_displayed_lines |-> 0, watching |-> <<>>, scan |-> ScanOff]

\* A PID:FD pair to watch, with the one entry of its info_array.
WatchedFd(size) ==
    [fd |-> 3, finished |-> FALSE, unused |-> FALSE, displayable |-> TRUE,
     closed |-> FALSE, end_time |-> 0, position |-> 0, size |-> size,
     total_stoppage_time |-> 0]

\* A PID to watch all the descriptors of, with the entry of its info_array
\* for the one descriptor number the process uses.
WatchedPid == [WatchedFd(0) EXCEPT !.fd = -1]

\* loop.c 793-881: the watched items are looked up; those that cannot be
\* found or shown are finished at once, with the access bit set.  found[k]
\* tells whether the k-th was found.
WatchStart ==
    /\ watch.pc = "start"
    /\ \E found \in [1 .. Len(watch.watching) -> BOOLEAN] :
        LET watching == [k \in 1 .. Len(watch.watching) |->
                            [watch.watching[k] EXCEPT !.finished = ~found[k]]]
            all_watching_finished ==
                \A k \in 1 .. Len(watching) : watching[k].finished
        IN  /\ status' = IF \E k \in 1 .. Len(watching) : ~found[k]
                         THEN status \cup {PV_ERROREXIT_ACCESS} ELSE status
            /\ watch' = [watch EXCEPT
                           !.watching = watching,
                           !.next_update = watch.cur_time + control.interval,
                           !.next_remotecheck = watch.cur_time,
                           !.pc = IF all_watching_finished THEN "done"
                                  ELSE "top"]
    /\ UNCHANGED <<control, transfer, flags, loop, display, env, remote,
                   signal, calc, hist>>

\* loop.c 883-919: the top of an iteration: the check for remote messages,
\* the poll of the exit flag, and the wait until an update is due.
WatchTop ==
    /\ watch.pc = "top"
    /\ \E msg \in env.messages \cup {NoMessage},
          now \in ClockReadings(watch.cur_time) :
        LET due == watch.cur_time > watch.next_remotecheck
            w1 == [watch EXCEPT !.next_remotecheck = IF due THEN @ + 1 ELSE @]
            bumped == watch.next_update + control.interval
        IN  /\ (~due => msg = NoMessage)
            /\ control' = IF due THEN pv_remote_check(control, msg)
                          ELSE control
            /\ watch' =
                 IF ExitPolled(flags) THEN [w1 EXCEPT !.pc = "end"]
                 ELSE IF now < watch.next_update
                 THEN [w1 EXCEPT !.cur_time = now]
                 ELSE [w1 EXCEPT !.cur_time = now,
                                 !.next_update = IF bumped < now THEN now
                                                 ELSE bumped,
                                 !.pc = "scan"]
    /\ UNCHANGED <<transfer, flags, status, loop, display, env, remote,
                   signal, calc, hist>>

\* A closed entry taken away whatever the time since it closed.
WatchItemRemovedAtOnce(w, position_now, cur_time, interval) ==
    IF w.finished THEN [item |-> w, shown |-> FALSE]
    ELSE IF w.unused \/ ~w.displayable
    THEN [item |-> [w EXCEPT !.finished = TRUE], shown |-> FALSE]
    ELSE IF w.closed
    THEN [item |-> [w EXCEPT !.unused = TRUE, !.displayable = FALSE],
          shown |-> FALSE]
    ELSE IF position_now < 0
    THEN [item |-> [w EXCEPT !.closed = TRUE, !.end_time = cur_time],
          shown |-> TRUE]
    ELSE [item |-> [w EXCEPT !.position = position_now], shown |-> TRUE]

\* loop.c 938-1107: one watched item in a pass of the loop, position_now
\* being what pv_watchfd_position returns if it is called.  Gives the item
\* and whether pv_display was called for it.
WatchItem(w, position_now, cur_time, interval) ==
    IF w.finished THEN [item |-> w, shown |-> FALSE]
    ELSE IF w.unused \/ ~w.displayable
    THEN [item |-> [w EXCEPT !.finished = TRUE], shown |-> FALSE]
    ELSE IF w.closed
    THEN IF cur_time - w.end_time > interval
         THEN [item |-> [w EXCEPT !.unused = TRUE, !.displayable = FALSE],
               shown |-> FALSE]
         ELSE [item |-> w, shown |-> TRUE]
    ELSE IF position_now < 0
    THEN [item |-> [w EXCEPT !.closed = TRUE, !.end_time = cur_time],
          shown |-> TRUE]
    ELSE [item |-> [w EXCEPT !.position = position_now], shown |-> TRUE]

\* watchpid.c 572-585: a slot of the info_array taken for a descriptor just
\* found.
NewWatchedFd(w) ==
    [w EXCEPT !.unused = FALSE, !.displayable = TRUE, !.closed = FALSE,
              !.end_time = 0, !.position = 0, !.total_stoppage_time = 0]

\* watchpid.c 458-659: pv_watchpid_scanfds.  listed tells whether the
\* process has the descriptor number open, rc is what pv_watchfd_info
\* returns for it and position_now what pv_watchfd_position does.  A
\* number listed whose entry is closed has the entry freed at once
\* (519-542), and the free slot is taken for the number as one just found
\* (546-640).
pv_watchpid_scanfds(w, listed, rc, position_now) ==
    IF ~listed \/ (~w.unused /\ ~w.closed) THEN w
    ELSE IF rc # 0 /\ rc # 4
    THEN [NewWatchedFd(w) EXCEPT !.unused = TRUE, !.displayable = FALSE]
    ELSE [NewWatchedFd(w) EXCEPT
            !.displayable = (rc = 0),
            !.position = IF position_now >= 0 THEN position_now ELSE 0]

\* loop.c 975-1107: one entry of an info_array in a pass of the loop.  An
\* entry not displayable is removed if pv_watchfd_changed says so, which
\* it does when the position cannot be had.
WatchEntry(w, position_now, cur_time, interval) ==
    IF w.unused THEN [item |-> w, shown |-> FALSE]
    ELSE IF ~w.displayable
    THEN [item |-> IF position_now < 0 THEN [w EXCEPT !.unused = TRUE] ELSE w,
          shown |-> FALSE]
    ELSE IF w.closed
    THEN IF cur_time - w.end_time > interval
         THEN [item |-> [w EXCEPT !.unused = TRUE, !.displayable = FALSE],
               shown |-> FALSE]
         ELSE [item |-> w, shown |-> TRUE]
    ELSE IF position_now < 0
    THEN [item |-> [w EXCEPT !.closed = TRUE, !.end_time = cur_time],
          shown |-> TRUE]
    ELSE [item |-> [w EXCEPT !.position = position_now], shown |-> TRUE]

\* loop.c 938-960 and 975-1107: a whole PID in a pass of the loop.  Its
\* descriptors are scanned again; if the scan fails (rc_scan) the item is
\* finished, and its entry is gone through all the same.
WatchPidItem(w, rc_scan, listed, rc, position_now, cur_time, interval) ==
    IF w.finished THEN [item |-> w, shown |-> FALSE]
    ELSE WatchEntry(IF rc_scan # 0 THEN [w EXCEPT !.finished = TRUE]
                    ELSE pv_watchpid_scanfds(w, listed, rc, position_now),
                    position_now, cur_time, interval)

\* What a scan of a whole PID may find: whether it fails, whether the
\* descriptor number is listed, and what the look at the descriptor gives.
ScanFindings(watching) ==
    IF \E k \in 1 .. Len(watching) : watching[k].fd = -1
    THEN [rc_scan : {0, 1}, listed : BOOLEAN, rc : {0, 1, 4}]
    ELSE {[rc_scan |-> 0, listed |-> FALSE, rc |-> 0]}

\* loop.c 921-1146: a pass over the watched items, with a display line for
\* each one shown (drawn from the item's own display state), and the check
\* whether all have finished.
WatchScan ==
    /\ watch.pc = "scan"
    /\ \E position_now \in [1 .. Len(watch.watching) -> -1 .. MaxPosition],
          found \in ScanFindings(watch.watching) :
        LET seen == [k \in 1 .. Len(watch.watching) |->
                        IF watch.watching[k].fd = -1
                        THEN WatchPidItem(watch.watching[k], found.rc_scan,
                                          found.listed, found.rc,
                                          position_now[k], watch.cur_time,
                                          control.interval)
                        ELSE WatchItem(watch.watching[k], position_now[k],
                                       watch.cur_time, control.interval)]
            shown == {k \in 1 .. Len(seen) : seen[k].shown}
            all_watching_finished ==
                \A k \in 1 .. Len(seen) : seen[k].item.finished
        IN  /\ watch' = [watch EXCEPT
                           !.watching = [k \in 1 .. Len(seen) |-> seen[k].item],
                           !.prev_displayed_lines = Cardinality(shown),
                           !.pc = IF all_watching_finished THEN "end"
                                  ELSE "top"]
            /\ control' =
                 IF shown = {} THEN control
                 ELSE [control EXCEPT !.size =
                          seen[CHOOSE k \in shown :
                                   \A j \in shown : j <= k].item.size]
    /\ UNCHANGED <<transfer, flags, status, loop, display, env, remote,
                   signal, calc, hist>>

\* loop.c 1149-1172: after the loop.
WatchEnd ==
    /\ watch.pc = "end"
    /\ status' = IF flags.trigger_exit = 1
                 THEN status \cup {PV_ERROREXIT_SIGNAL} ELSE status
    /\ watch' = [watch EXCEPT !.pc = "done"]
    /\ UNCHANGED <<control, transfer, flags, loop, display, env, remote,
                   signal, calc, hist>>

(* ----------------------------- remote control ------------------------- *)

\* remote.c 195-198: the sender's wait for an answer, in polls of 10 ms; the
\* loop runs while more than one is left (1.1 s, scaled).
RemoteTimeout == 3

\* The largest count and size a message of a process other than pv holds.
MaxQueried == 3

\* remote.c 131 and 133: the width and height sent for one below 1
\* (80 and 25, scaled).
REMOTE_WIDTH_DEFAULT == 2
REMOTE_HEIGHT_DEFAULT == 2
\* remote.c 134-137: the largest width and height sent (999999, scaled).
REMOTE_DIMENSION_MAX == 4
\* remote.c 138-141: the least and greatest interval sent (0.1 s and
\* 600 s, scaled).
REMOTE_INTERVAL_MIN == 2
REMOTE_INTERVAL_MAX == 4

\* remote.c 27-48: the settings a message carries, of those modelled.
RemoteSettings(intervals, widths, heights, manual) ==
    [rate_limit : {0}, buffer_size : {0, BufferSize + 1}, size : {0},
     interval : intervals, width : widths, height : heights,
     width_set_manually : manual, height_set_manually : manual,
     name : {NoText}, format : {NoText}, extra_display : {NoText}]

\* remote.c 130-141 left out: the message goes out as the settings are.
Unclamped(m) == m

\* remote.c 130-141: the sender brings the message within sensible bounds.
Clamped(m) ==
    LET width == IF m.width < 1 THEN REMOTE_WIDTH_DEFAULT ELSE m.width
        height == IF m.height < 1 THEN REMOTE_HEIGHT_DEFAULT ELSE m.height
        interval == IF m.interval > 0 /\ m.interval < REMOTE_INTERVAL_MIN
                    THEN REMOTE_INTERVAL_MIN ELSE m.interval
    IN  [m EXCEPT !.width = Min(width, REMOTE_DIMENSION_MAX),
                  !.height = Min(height, REMOTE_DIMENSION_MAX),
                  !.interval = Min(interval, REMOTE_INTERVAL_MAX)]

\* state.c 611-617: the width is capped on its way into the settings.
pv_state_width_set(c, val) ==
    [c EXCEPT !.width = Min(val, PVDISPLAY_WIDTH_MAX)]

\* state.c 619-623: the height is stored as it comes.
pv_state_height_set(c, val) == [c EXCEPT !.height = val]

\* state.c 606-609: the interval is stored as it comes.
pv_state_interval_set(c, val) == [c EXCEPT !.interval = val]

\* A format string that is kept when none is given.
FormatStringKept(c, val) ==
    IF val = NoText THEN c ELSE [c EXCEPT !.format_string = val]

\* state.c 645-653: the format string is dropped, and set if one is given.
pv_state_format_string_set(c, val) == [c EXCEPT !.format_string = val]

\* state.c 625-633: the name is dropped, and set if one is given.
pv_state_name_set(c, val) == [c EXCEPT !.name = val]

\* state.c 655-711: the extra display is dropped, and set if one is given.
pv_state_extra_display_set(c, val) == [c EXCEPT !.extra_display_spec = val]

\* state.c 413-476: pv_state_set_format, of which the name is followed: the
\* name is dropped, and set if one is given.
pv_state_set_format(c, name) == [c EXCEPT !.name = name]

\* remote.c 299-333: the settings of a message that was read are put in
\* effect.  The format string, the name and the extra display are dropped
\* first and then set from the message, those it holds; of the numbers,
\* each one is set only if the message sets it.
ApplySettings(c, msgbuf) ==
    LET d1 == pv_state_format_string_set(c, NoText)
        d2 == pv_state_name_set(d1, NoText)
        d3 == pv_state_extra_display_set(d2, NoText)
        d4 == pv_state_set_format(d3, msgbuf.name)
        c1 == pv_remote_check(d4, msgbuf)
        c2 == [c1 EXCEPT !.size = IF msgbuf.size > 0 THEN msgbuf.size ELSE @]
        c3 == IF msgbuf.interval > 0
              THEN pv_state_interval_set(c2, msgbuf.interval) ELSE c2
        c4 == IF msgbuf.width > 0 /\ msgbuf.width_set_manually
              THEN pv_state_width_set(c3, msgbuf.width) ELSE c3
        c5 == IF msgbuf.height > 0 /\ msgbuf.height_set_manually
              THEN pv_state_height_set(c4, msgbuf.height) ELSE c4
        c6 == IF msgbuf.format # NoText
              THEN pv_state_format_string_set(c5, msgbuf.format) ELSE c5
    IN  IF msgbuf.extra_display # NoText
        THEN pv_state_extra_display_set(c6, msgbuf.extra_display) ELSE c6

\* A control file that was never written: nothing is read from it.
NothingRead(file) == <<>>

\* remote.c 270-289 and 386-403: fopen, fread and fclose of a control
\* file give what the file holds.
ControlFileRead(file) == file

\* remote.c 271-275 and 387-391: fopen fails on a file that is not there.
ControlFileExists(file) == file # <<>>

\* remote.c 583: the wait for the reply to a query goes on only while the
\* exit flag is clear.
QueryWaitGoesOn(r) == r.trigger_exit = 0

\* remote.c 198 and 583: the condition of the sender's wait loop.
WaitGoesOn(r) ==
    /\ r.timeout > 1
    /\ ~r.received
    /\ r.op = "query" => QueryWaitGoesOn(r)

\* No pv is sending to this one.
RemoteOff ==
    [pc |-> "off", op |-> "set", settings |-> [interval |-> 0],
     timeout |-> 0, received |-> FALSE, trigger_exit |-> 0, ret |-> "none",
     sender_rxusr1 |-> FALSE, sender_rxusr2 |-> FALSE,
     fetched |-> <<>>, rxusr1 |-> FALSE, rxusr2 |-> FALSE,
     rpc |-> "idle", msgbuf |-> <<>>, applied |-> <<>>, clamped |-> TRUE,
     files |-> [set |-> <<>>, query |-> <<>>, reply |-> <<>>]]

\* remote.c 72-186: pv_remote_set up to its wait: the message is built
\* from the sender's settings, written to the sender's file, and the
\* receiver is signalled, after the sender's own flag is cleared.  The file
\* may fail to be created.
RemoteSetSend ==
    /\ remote.pc = "start"
    /\ remote.op = "set"
    /\ remote.clamped
    /\ \E created \in BOOLEAN :
        remote' = IF created
                  THEN [remote EXCEPT
                          !.files.set = <<Clamped(remote.settings)>>,
                          !.sender_rxusr2 = FALSE,
                          !.rxusr2 = TRUE,
                          !.timeout = RemoteTimeout,
                          !.received = FALSE,
                          !.pc = "wait"]
                  ELSE [remote EXCEPT !.pc = "done",
                                      !.ret = PV_ERROREXIT_REMOTE_OR_PID]
    /\ UNCHANGED <<control, transfer, flags, status, loop, display, env,
                   watch, signal, calc, hist>>

\* A sender that follows the protocol of pv_remote_set and leaves out its
\* bounds: the file holds the settings as they are.
OtherSetSend ==
    /\ remote.pc = "start"
    /\ remote.op = "set"
    /\ ~remote.clamped
    /\ remote' = [remote EXCEPT
                    !.files.set = <<Unclamped(remote.settings)>>,
                    !.sender_rxusr2 = FALSE,
                    !.rxusr2 = TRUE,
                    !.timeout = RemoteTimeout,
                    !.received = FALSE,
                    !.pc = "wait"]
    /\ UNCHANGED <<control, transfer, flags, status, loop, display, env,
                   watch, signal, calc, hist>>

\* remote.c 195-231: one pass of pv_remote_set's wait loop (10 ms of
\* sleep, then a look at the flag SIGUSR2 sets), or, the loop over, the
\* removal of the file and the return.
RemoteSetWait ==
    /\ remote.pc = "wait"
    /\ remote.op = "set"
    /\ remote' =
         IF WaitGoesOn(remote)
         THEN [remote EXCEPT
                 !.timeout = @ - 1,
                 !.sender_rxusr2 = FALSE,
                 !.received = remote.sender_rxusr2]
         ELSE [remote EXCEPT
                 !.files.set = <<>>,
                 !.ret = IF remote.received THEN "ok"
                         ELSE PV_ERROREXIT_REMOTE_OR_PID,
                 !.pc = "done"]
    /\ UNCHANGED <<control, transfer, flags, status, loop, display, env,
                   watch, signal, calc, hist>>

\* remote.c 253-297: pv__rxsignal_usr2 up to its acknowledgement: the
\* flag is taken, the sender's file is read and closed, and SIGUSR2 is sent
\* back.  With nothing to read the function returns.
RxUsr2Read ==
    /\ remote.rpc = "idle"
    /\ remote.rxusr2
    /\ LET msgbuf == ControlFileRead(remote.files.set)
       IN  remote' = IF ~ControlFileExists(remote.files.set)
                     THEN [remote EXCEPT !.rxusr2 = FALSE]
                     ELSE [remote EXCEPT !.rxusr2 = FALSE,
                                         !.msgbuf = msgbuf,
                                         !.sender_rxusr2 = TRUE,
                                         !.rpc = "apply"]
    /\ UNCHANGED <<control, transfer, flags, status, loop, display, env,
                   watch, signal, calc, hist>>

\* remote.c 299-333: the rest of pv__rxsignal_usr2: the settings read are
\* put in effect.
RxUsr2Apply ==
    /\ remote.rpc = "apply"
    /\ control' = ApplySettings(control, remote.msgbuf[1])
    /\ remote' = [remote EXCEPT !.rpc = "idle", !.applied = remote.msgbuf]
    /\ UNCHANGED <<transfer, flags, status, loop, display, env, watch,
                   signal, calc, hist>>

\* remote.c 412-420: a message marked as a response replaces the transfer
\* state of the process that reads it.
StateTakenOver(t, msgbuf) ==
    [t EXCEPT !.elapsed_seconds = msgbuf.elapsed_seconds,
              !.transferred = msgbuf.transferred]

\* remote.c 356-468: pv__rxsignal_usr1 in the receiver, called with no
\* sender to match (remote.c 488): the message is read and its file
\* removed.  A response is taken over as the receiver's transfer state and
\* size.  To a query the reply, holding the transfer state, is written to
\* the receiver's own file and SIGUSR1 is sent back; the reply file is
\* removed here only if it cannot be written or the signal cannot be sent.
RxUsr1Query ==
    /\ remote.rpc = "idle"
    /\ remote.rxusr1
    /\ LET msgbuf == ControlFileRead(remote.files.query)
           reply == [response |-> TRUE,
                     elapsed_seconds |-> transfer.elapsed_seconds,
                     transferred |-> transfer.transferred,
                     size |-> control.size]
       IN  IF ~ControlFileExists(remote.files.query)
           THEN /\ remote' = [remote EXCEPT !.rxusr1 = FALSE]
                /\ UNCHANGED <<control, transfer>>
           ELSE IF msgbuf[1].response
           THEN /\ remote' = [remote EXCEPT !.rxusr1 = FALSE,
                                            !.files.query = <<>>]
                /\ transfer' = StateTakenOver(transfer, msgbuf[1])
                /\ control' = [control EXCEPT !.size = msgbuf[1].size]
           ELSE /\ \E written \in BOOLEAN :
                     remote' = IF written
                               THEN [remote EXCEPT !.rxusr1 = FALSE,
                                                   !.files.query = <<>>,
                                                   !.files.reply = <<reply>>,
                                                   !.sender_rxusr1 = TRUE]
                               ELSE [remote EXCEPT !.rxusr1 = FALSE,
                                                   !.files.query = <<>>]
                /\ UNCHANGED <<control, transfer>>
    /\ UNCHANGED <<flags, status, loop, display, env, watch, signal, calc,
                   hist>>

\* remote.c 52-57 and 386-403: the receiver takes the message from the file
\* named after the process that sent SIGUSR1, whatever process that is: a
\* process other than pv writes a query_msg of its own making there and
\* sends the signal.
OtherUsr1Send ==
    /\ remote.pc = "start"
    /\ remote.op = "usr1"
    /\ remote' = [remote EXCEPT !.files.query = <<remote.settings>>,
                                !.rxusr1 = TRUE,
                                !.pc = "done"]
    /\ UNCHANGED <<control, transfer, flags, status, loop, display, env,
                   watch, signal, calc, hist>>

\* remote.c 502-572: pv_remote_transferstate_fetch up to its wait: the
\* query is written to the sender's file and the receiver is signalled,
\* after the sender's own flag is cleared.
QuerySend ==
    /\ remote.pc = "start"
    /\ remote.op = "query"
    /\ \E created \in BOOLEAN :
        remote' = IF created
                  THEN [remote EXCEPT
                          !.files.query = <<[response |-> FALSE]>>,
                          !.sender_rxusr1 = FALSE,
                          !.rxusr1 = TRUE,
                          !.timeout = RemoteTimeout,
                          !.received = FALSE,
                          !.pc = "wait"]
                  ELSE [remote EXCEPT !.pc = "done",
                                      !.ret = PV_ERROREXIT_REMOTE_OR_PID]
    /\ UNCHANGED <<control, transfer, flags, status, loop, display, env,
                   watch, signal, calc, hist>>

\* remote.c 580-625: one pass of the wait loop of
\* pv_remote_transferstate_fetch (10 ms of sleep, then pv__rxsignal_usr1,
\* which reads the reply, removes its file and takes over the state it
\* holds), or, the loop over, the removal of the query file and the return.
QueryWait ==
    /\ remote.pc = "wait"
    /\ remote.op = "query"
    /\ remote' =
         IF WaitGoesOn(remote)
         THEN LET msgbuf == ControlFileRead(remote.files.reply)
              IN  IF ~remote.sender_rxusr1
                     \/ ~ControlFileExists(remote.files.reply)
                  THEN [remote EXCEPT
                          !.timeout = @ - 1,
                          !.sender_rxusr1 = FALSE]
                  ELSE [remote EXCEPT
                          !.timeout = @ - 1,
                          !.sender_rxusr1 = FALSE,
                          !.files.reply = <<>>,
                          !.fetched = msgbuf,
                          !.received = TRUE]
         ELSE [remote EXCEPT
                 !.files.query = <<>>,
                 !.ret = IF remote.received THEN "ok"
                         ELSE PV_ERROREXIT_REMOTE_OR_PID,
                 !.pc = "done"]
    /\ UNCHANGED <<control, transfer, flags, status, loop, display, env,
                   watch, signal, calc, hist>>

\* signal.c 249-256 in the sender: INT, HUP or TERM arrives while it waits.
SenderSigTerm ==
    /\ remote.pc = "wait"
    /\ remote.trigger_exit = 0
    /\ remote' = [remote EXCEPT !.trigger_exit = 1]
    /\ UNCHANGED <<control, transfer, flags, status, loop, display, env,
                   watch, signal, calc, hist>>

(* ---------------------------- two senders ----------------------------- *)

\* The processes that send settings to the one running pv.
Senders == {"A", "B"}

\* The settings a sender sends: an interval of its own.
SettingsOf(p) ==
    [rate_limit |-> 0, buffer_size |-> 0, size |-> 0,
     interval |-> IF p = "A" THEN REMOTE_INTERVAL_MIN
                  ELSE REMOTE_INTERVAL_MAX,
     width |-> REMOTE_WIDTH_DEFAULT, height |-> REMOTE_HEIGHT_DEFAULT,
     width_set_manually |-> FALSE, height_set_manually |-> FALSE,
     name |-> NoText, format |-> NoText, extra_display |-> NoText]

\* A sender about to call pv_remote_set: its place, the time it has left
\* to wait, what it found, and the flag its own SIGUSR2 handler sets.
SenderStart ==
    [pc |-> "start", op |-> "set", timeout |-> 0, received |-> FALSE,
     rxusr2 |-> FALSE, ret |-> "none"]

\* Two senders and the receiver: the senders, the control file of each,
\* the sender and the flag that the receiver's handler of SIGUSR2 keeps
\* (signal.c 264-274), and the receiver's place in pv__rxsignal_usr2.
TwoSenders ==
    [pc |-> "off", senders |-> [p \in Senders |-> SenderStart],
     files |-> [p \in Senders |-> <<>>],
     sender_usr2 |-> "none", rxusr2 |-> FALSE,
     rpc |-> "idle", signal_sender |-> "none", msgbuf |-> <<>>,
     applied |-> {}, acknowledged |-> {}]

\* remote.c 72-186 and signal.c 264-274: a sender writes its message to
\* its own file, clears its flag and sends SIGUSR2 to the receiver, whose
\* handler records the sender and sets the flag.
SetSend(p) ==
    /\ remote.senders[p].pc = "start"
    /\ remote' = [remote EXCEPT
                    !.files[p] = <<Clamped(SettingsOf(p))>>,
                    !.senders[p].rxusr2 = FALSE,
                    !.senders[p].timeout = RemoteTimeout,
                    !.senders[p].received = FALSE,
                    !.senders[p].pc = "wait",
                    !.sender_usr2 = p,
                    !.rxusr2 = TRUE]
    /\ UNCHANGED <<control, transfer, flags, status, loop, display, env,
                   watch, signal, calc, hist>>

\* remote.c 195-231: one pass of a sender's wait loop, or, the loop over,
\* the removal of its file and its return.
SetWait(p) ==
    /\ remote.senders[p].pc = "wait"
    /\ remote' =
         IF WaitGoesOn(remote.senders[p])
         THEN [remote EXCEPT
                 !.senders[p].timeout = @ - 1,
                 !.senders[p].rxusr2 = FALSE,
                 !.senders[p].received = remote.senders[p].rxusr2]
         ELSE [remote EXCEPT
                 !.files[p] = <<>>,
                 !.senders[p].ret = IF remote.senders[p].received THEN "ok"
                                    ELSE PV_ERROREXIT_REMOTE_OR_PID,
                 !.senders[p].pc = "done"]
    /\ UNCHANGED <<control, transfer, flags, status, loop, display, env,
                   watch, signal, calc, hist>>

\* signal.c 281-291 and remote.c 253-297: the receiver takes the flag and
\* the sender recorded with it, reads that sender's file and sends SIGUSR2
\* back to it.  With nothing to read the function returns.
RxRead ==
    /\ remote.rpc = "idle"
    /\ remote.rxusr2
    /\ LET signal_sender == remote.sender_usr2
           file == remote.files[signal_sender]
       IN  remote' =
             IF ~ControlFileExists(file)
             THEN [remote EXCEPT !.rxusr2 = FALSE]
             ELSE [remote EXCEPT
                     !.rxusr2 = FALSE,
                     !.signal_sender = signal_sender,
                     !.msgbuf = ControlFileRead(file),
                     !.senders[signal_sender].rxusr2 = TRUE,
                     !.acknowledged = @ \cup {signal_sender},
                     !.rpc = "apply"]
    /\ UNCHANGED <<control, transfer, flags, status, loop, display, env,
                   watch, signal, calc, hist>>

\* remote.c 299-333: the settings read are put in effect.
RxApply ==
    /\ remote.rpc = "apply"
    /\ control' = ApplySettings(control, remote.msgbuf[1])
    /\ remote' = [remote EXCEPT !.rpc = "idle",
                                !.applied = @ \cup {remote.signal_sender}]
    /\ UNCHANGED <<transfer, flags, status, loop, display, env, watch,
                   signal, calc, hist>>

(* ------------------------ signals and environment --------------------- *)

\* signal.c 249-256: INT, HUP or TERM arrives; the handler sets the flag.
pv_sig_term ==
    /\ loop.pc # "done"
    /\ watch.pc # "done"
    /\ flags.trigger_exit = 0
    /\ flags' = [flags EXCEPT !.trigger_exit = 1]
    /\ UNCHANGED <<control, transfer, status, loop, display, env, watch,
                   remote, signal, calc, hist>>

\* signal.c 236-243: WINCH arrives; the handler sets the flag.
pv_sig_winch ==
    /\ loop.pc # "done"
    /\ watch.pc # "done"
    /\ flags.terminal_resized = 0
    /\ flags' = [flags EXCEPT !.terminal_resized = 1]
    /\ UNCHANGED <<control, transfer, status, loop, display, env, watch,
                   remote, signal, calc, hist>>

\* The consumer of the output pipe reads some of what waits in it.  pv sees
\* the pipe's fill only in pv_transfer (select, write, splice) and in the
\* FIONREAD of the accounting, so the consumer's steps are taken just before
\* one of the two.
ConsumerRead ==
    /\ env.output_is_pipe
    /\ ~env.reader_gone
    /\ loop.pc \in {"transfer", "post"}
    /\ \E k \in 1 .. env.pipe_unread :
           env' = [env EXCEPT !.pipe_unread = @ - k]
    /\ UNCHANGED <<control, transfer, flags, status, loop, display, watch,
                   remote, signal, calc, hist>>

\* The consumer of the output pipe goes away; pv sees that only when it
\* next writes.
ConsumerClose ==
    /\ env.output_is_pipe
    /\ ~env.reader_gone
    /\ loop.pc = "transfer"
    /\ env' = [env EXCEPT !.reader_gone = TRUE]
    /\ UNCHANGED <<control, transfer, flags, status, loop, display, watch,
                   remote, signal, calc, hist>>

(* ------------------------- stop and continue -------------------------- *)

\* Latest clock value of a run with stops (in ticks).
MaxStopTime == 4

\* The number of signals sent to pv from outside in one run.
MaxSignals == 3

\* The depth to which handlers interrupt one another.
MaxNesting == 2

\* The ticks in a second: a struct timespec holds whole seconds in one
\* word (tv_sec) and the rest in another (tv_nsec).
TicksPerSecond == 2

tv_sec(t) == t \div TicksPerSecond
tv_nsec(t) == t % TicksPerSecond

\* signal.c 364 and 387, state.c 141-146: the flags as pv_sig_init and
\* pv_reset_flags leave them.
InitialFlags ==
    [trigger_exit |-> 0, pipe_closed |-> 0, suspend_stderr |-> 0,
     skip_next_sigcont |-> 0, terminal_resized |-> 0, reparse_display |-> 1]

\* Neither stopped nor signalled: the run is not one with stops.
SignalOff ==
    [clock |-> TicksPerSecond, sent |-> 0, pending |-> {}, stopped |-> FALSE,
     stack |-> <<>>, when_tstp_arrived |-> 0, total_stoppage_time |-> 0,
     main |-> [pc |-> "off", cur_time |-> 0, words |-> {}, sec |-> 0,
               nsec |-> 0, elapsed |-> 0, stoppage_at_read |-> 0],
     stopped_at |-> 0, stoppage |-> 0]

\* The handler that runs now, if any.
Running == signal.stack[Len(signal.stack)]

\* signal.c 389-410: the masks are empty and SA_NODEFER is not set, so the
\* only signals blocked are those whose handlers run.
Blocked == {signal.stack[i].handler : i \in 1 .. Len(signal.stack)}

\* Code of pv, handler or loop, runs only while the process is not stopped
\* and no signal waits that can be delivered.
CanRun == ~signal.stopped /\ signal.pending \subseteq Blocked

HandlerCanRun(handler, pc) ==
    /\ CanRun
    /\ signal.stack # <<>>
    /\ Running.handler = handler
    /\ Running.pc = pc

\* The stack once the top handler has moved on to pc, or has returned.
Goto(pc) == [signal.stack EXCEPT ![Len(signal.stack)].pc = pc]
Returned == SubSeq(signal.stack, 1, Len(signal.stack) - 1)

\* The clock moves on while pv is stopped; what pv does when it runs takes
\* no time to speak of.
Tick ==
    /\ signal.stopped
    /\ signal.clock < MaxStopTime
    /\ signal' = [signal EXCEPT !.clock = @ + 1]
    /\ UNCHANGED <<control, transfer, flags, status, loop, display, env,
                   watch, remote, calc, hist>>

\* A SIGTSTP or SIGTTOU is generated for pv: a stop signal discards a
\* SIGCONT that waits to be delivered.
StopSignalSent ==
    /\ signal.main.pc # "off"
    /\ ~signal.stopped
    /\ signal.sent < MaxSignals
    /\ \E s \in {"TSTP", "TTOU"} :
         signal' = [signal EXCEPT !.pending = (@ \ {"CONT"}) \cup {s},
                                  !.sent = @ + 1]
    /\ UNCHANGED <<control, transfer, flags, status, loop, display, env,
                   watch, remote, calc, hist>>

\* A SIGCONT is generated for pv from outside: it discards the stop signals
\* that wait to be delivered, and a stopped process runs again.
ContSent ==
    /\ signal.main.pc # "off"
    /\ signal.sent < MaxSignals \/ signal.stopped
    /\ signal' = [signal EXCEPT
                    !.pending = (@ \ {"TSTP", "TTOU"}) \cup {"CONT"},
                    !.sent = @ + 1,
                    !.stopped = FALSE,
                    !.stoppage = IF signal.stopped
                                 THEN @ + (signal.clock - signal.stopped_at)
                                 ELSE @]
    /\ UNCHANGED <<control, transfer, flags, status, loop, display, env,
                   watch, remote, calc, hist>>

\* A signal that waits and is not blocked is delivered: its handler
\* interrupts what runs, the handler of another signal included.  loaded is
\* the value of the counter the handler has read and not yet stored.
Deliver ==
    /\ ~signal.stopped
    /\ Len(signal.stack) < MaxNesting
    /\ \E s \in signal.pending \ Blocked :
         signal' = [signal EXCEPT
                      !.pending = @ \ {s},
                      !.stack = Append(@, [handler |-> s, pc |-> 1,
                                           time_spent_stopped |-> 0,
                                           loaded |-> 0])]
    /\ UNCHANGED <<control, transfer, flags, status, loop, display, env,
                   watch, remote, calc, hist>>

\* The stack once the top handler has read the counter and moved on to pc.
Load(pc) ==
    [signal.stack EXCEPT ![Len(signal.stack)].pc = pc,
                         ![Len(signal.stack)].loaded = flags.skip_next_sigcont]

\* signal.c 92-112: pv_sig_ttou.  Unless stderr is suspended already, it
\* is suspended (pc 1), the next SIGCONT is to be skipped, the counter
\* being read (pc 2) and stored one higher (pc 3), and SIGCONT is sent to
\* the process group, pv included (pc 4).
pv_sig_ttou ==
    \/ /\ HandlerCanRun("TTOU", 1)
       /\ IF flags.suspend_stderr # 1
          THEN /\ flags' = [flags EXCEPT !.suspend_stderr = 1]
               /\ signal' = [signal EXCEPT !.stack = Goto(2)]
          ELSE /\ signal' = [signal EXCEPT !.stack = Returned]
               /\ UNCHANGED flags
       /\ UNCHANGED watch
    \/ /\ HandlerCanRun("TTOU", 2)
       /\ signal' = [signal EXCEPT !.stack = Load(3)]
       /\ UNCHANGED <<flags, watch>>
    \/ /\ HandlerCanRun("TTOU", 3)
       /\ flags' = [flags EXCEPT !.skip_next_sigcont = Running.loaded + 1]
       /\ signal' = [signal EXCEPT !.stack = Goto(4)]
       /\ UNCHANGED watch
    \/ /\ HandlerCanRun("TTOU", 4)
       /\ signal' = [signal EXCEPT !.pending = @ \cup {"CONT"},
                                   !.stack = Returned]
       /\ UNCHANGED <<flags, watch>>

\* signal.c 119-128: pv_sig_tstp.  The time is stored (pc 1) and the
\* process stops itself (pc 2); a SIGCONT later, the handler returns
\* (pc 3).
pv_sig_tstp ==
    \/ /\ HandlerCanRun("TSTP", 1)
       /\ signal' = [signal EXCEPT !.when_tstp_arrived = signal.clock,
                                   !.stack = Goto(2)]
       /\ UNCHANGED <<flags, watch>>
    \/ /\ HandlerCanRun("TSTP", 2)
       /\ signal' = [signal EXCEPT !.stopped = TRUE,
                                   !.stopped_at = signal.clock,
                                   !.stack = Goto(3)]
       /\ UNCHANGED <<flags, watch>>
    \/ /\ HandlerCanRun("TSTP", 3)
       /\ signal' = [signal EXCEPT !.stack = Returned]
       /\ UNCHANGED <<flags, watch>>

\* signal.c 183-206: the time spent stopped is added to the stoppage time
\* of each watched descriptor in use and displayable, of the items not
\* finished.
StoppageAdded(w, time_spent_stopped) ==
    IF w.finished \/ w.unused \/ ~w.displayable THEN w
    ELSE [w EXCEPT !.total_stoppage_time = @ + time_spent_stopped]

\* signal.c 183-206: the handler's walk, through the pointer and the length
\* that watching[] holds when it runs.  Through a pointer to a block that
\* realloc has given back, what it adds reaches no entry in use and lands in
\* freed memory.  While qsort moves the entries about, what it adds to an
\* entry may be overwritten by the copy qsort holds.
StoppageWalk(w, time_spent_stopped) ==
    LET entries == 1 .. Len(w.watching)
        AddedTo(reached) ==
            [w EXCEPT !.watching =
                [k \in entries |->
                    IF k \in reached
                    THEN StoppageAdded(w.watching[k], time_spent_stopped)
                    ELSE w.watching[k]]]
    IN  IF w.scan.info_array \in w.scan.freed
        THEN {[w EXCEPT !.scan.stale_walks = TRUE]}
        ELSE IF w.scan.pc = "sorting"
        THEN {AddedTo(reached) : reached \in SUBSET entries}
        ELSE {AddedTo(entries)}

\* A counter that is counted off whatever it holds.
SkipThisSigcontAlways(skip_next_sigcont) == TRUE

\* signal.c 145: whether this SIGCONT is one to be skipped.
SkipThisSigcont(skip_next_sigcont) == skip_next_sigcont > 0

\* signal.c 136-230: pv_sig_cont.  A SIGCONT to be skipped (pc 1) is
\* counted off, the counter being read (pc 7) and stored one lower (pc 8),
\* and nothing else is done.  Otherwise, if a SIGTSTP left its time,
\* the time since is worked out (pc 2), added to the total stoppage time
\* (pc 3) and to that of the watched descriptors (pc 4), and the time of
\* the SIGTSTP is cleared (pc 5); then stderr is used again if pv is in
\* the foreground (pc 6).
pv_sig_cont ==
    \/ /\ HandlerCanRun("CONT", 1)
       /\ IF SkipThisSigcont(flags.skip_next_sigcont)
          THEN /\ signal' = [signal EXCEPT !.stack = Goto(7)]
               /\ UNCHANGED flags
          ELSE /\ flags' = [flags EXCEPT
                               !.skip_next_sigcont = IF @ < 0 THEN 0 ELSE @,
                               !.terminal_resized = 1]
               /\ signal' = [signal EXCEPT !.stack = Goto(2)]
       /\ UNCHANGED watch
    \/ /\ HandlerCanRun("CONT", 7)
       /\ signal' = [signal EXCEPT !.stack = Load(8)]
       /\ UNCHANGED <<flags, watch>>
    \/ /\ HandlerCanRun("CONT", 8)
       /\ flags' = [flags EXCEPT !.skip_next_sigcont = Running.loaded - 1]
       /\ signal' = [signal EXCEPT !.stack = Returned]
       /\ UNCHANGED watch
    \/ /\ HandlerCanRun("CONT", 2)
       /\ signal' =
            IF tv_sec(signal.when_tstp_arrived) # 0
            THEN [signal EXCEPT
                    !.stack = [Goto(3) EXCEPT
                                 ![Len(signal.stack)].time_spent_stopped =
                                     signal.clock - signal.when_tstp_arrived]]
            ELSE [signal EXCEPT !.stack = Goto(6)]
       /\ UNCHANGED <<flags, watch>>
    \/ /\ HandlerCanRun("CONT", 3)
       /\ signal' = [signal EXCEPT
                       !.total_stoppage_time = @ + Running.time_spent_stopped,
                       !.stack = Goto(4)]
       /\ UNCHANGED <<flags, watch>>
    \/ /\ HandlerCanRun("CONT", 4)
       /\ watch' \in StoppageWalk(watch, Running.time_spent_stopped)
       /\ signal' = [signal EXCEPT !.stack = Goto(5)]
       /\ UNCHANGED flags
    \/ /\ HandlerCanRun("CONT", 5)
       /\ signal' = [signal EXCEPT !.when_tstp_arrived = 0,
                                   !.stack = Goto(6)]
       /\ UNCHANGED <<flags, watch>>
    \/ /\ HandlerCanRun("CONT", 6)
       /\ \E pv_in_foreground \in BOOLEAN :
            flags' = IF flags.suspend_stderr = 1 /\ pv_in_foreground
                     THEN [flags EXCEPT !.suspend_stderr = 0]
                     ELSE flags
       /\ signal' = [signal EXCEPT !.stack = Returned]
       /\ UNCHANGED watch

\* The handlers of the stop and continue signals, one step of one of them.
HandlerStep ==
    /\ pv_sig_ttou \/ pv_sig_tstp \/ pv_sig_cont
    /\ UNCHANGED <<control, transfer, status, loop, display, env, remote,
                   calc, hist>>

\* loop.c 503 and 903: the loop reads the clock, once in each pass.
LoopReadsClock ==
    /\ CanRun
    /\ signal.stack = <<>>
    /\ signal.main.pc = "clock"
    /\ signal' = [signal EXCEPT
                    !.main = [pc |-> "stoppage", cur_time |-> signal.clock,
                              words |-> {"tv_sec", "tv_nsec"}, sec |-> 0,
                              nsec |-> 0, elapsed |-> signal.main.elapsed,
                              stoppage_at_read |-> signal.stoppage]]
    /\ UNCHANGED <<control, transfer, flags, status, loop, display, env,
                   watch, remote, calc, hist>>

\* loop.c 157: pv__elapsed_transfer_time reads the total stoppage time, a
\* word at a time, in an order the build chooses.
LoopReadsStoppage ==
    /\ CanRun
    /\ signal.stack = <<>>
    /\ signal.main.pc = "stoppage"
    /\ \E w \in signal.main.words :
         signal' = [signal EXCEPT
                      !.main.words = @ \ {w},
                      !.main.sec = IF w = "tv_sec"
                                   THEN tv_sec(signal.total_stoppage_time)
                                   ELSE @,
                      !.main.nsec = IF w = "tv_nsec"
                                    THEN tv_nsec(signal.total_stoppage_time)
                                    ELSE @,
                      !.main.pc = IF signal.main.words = {w} THEN "rate"
                                  ELSE @]
    /\ UNCHANGED <<control, transfer, flags, status, loop, display, env,
                   watch, remote, calc, hist>>

\* The stoppage time the loop has read.
StoppageRead == signal.main.sec * TicksPerSecond + signal.main.nsec

\* loop.c 571-605 and 1064-1070: the elapsed time is worked out from the
\* clock value and the stoppage time read, and the rate from it.
LoopUsesElapsed ==
    /\ CanRun
    /\ signal.stack = <<>>
    /\ signal.main.pc = "rate"
    /\ signal' = [signal EXCEPT
                    !.main.elapsed =
                        signal.main.cur_time - TicksPerSecond - StoppageRead,
                    !.main.pc = "clock"]
    /\ UNCHANGED <<control, transfer, flags, status, loop, display, env,
                   watch, remote, calc, hist>>

(* ----------------------- the scan, step by step ----------------------- *)

\* The most entries the info_array of a watched process grows to.
MaxArrayLength == 2

\* The loop, not a handler, runs and is in a scan at pc.
ScanCanRun(pc) ==
    /\ CanRun
    /\ signal.stack = <<>>
    /\ watch.scan.pc = pc

\* loop.c 941-949 and watchpid.c 545-559, 362-381: the rescan of a watched
\* process finds a descriptor not known yet and no entry free for it:
\* extend_info_array asks realloc for a block one entry longer.  realloc
\* may extend the block where it is or copy it to a new one and free the
\* old one; watching[].info_array still holds the old pointer.
ScanExtend ==
    /\ ScanCanRun("scan")
    /\ Len(watch.watching) < MaxArrayLength
    /\ \E moved \in BOOLEAN :
         watch' = [watch EXCEPT
                     !.scan.pc = "extended",
                     !.scan.new_info_array =
                         IF moved THEN watch.scan.info_array + 1
                         ELSE watch.scan.info_array,
                     !.scan.freed =
                         IF moved THEN @ \cup {watch.scan.info_array}
                         ELSE @]
    /\ UNCHANGED <<control, transfer, flags, status, loop, display, env,
                   remote, signal, calc, hist>>

\* watchpid.c 387-392: the new last entry is marked unused, and the new
\* pointer and length are stored in watching[].
ScanAssign ==
    /\ ScanCanRun("extended")
    /\ watch' = [watch EXCEPT
                   !.scan.pc = "fill",
                   !.scan.info_array = watch.scan.new_info_array,
                   !.watching = Append(@, [WatchedPid EXCEPT
                                               !.unused = TRUE,
                                               !.displayable = FALSE])]
    /\ UNCHANGED <<control, transfer, flags, status, loop, display, env,
                   remote, signal, calc, hist>>

\* watchpid.c 577-639: the new entry is cleared and set up; an entry whose
\* lookup fails is left unused.
ScanFill ==
    /\ ScanCanRun("fill")
    /\ \E rc \in {0, 1} :
         watch' = [watch EXCEPT
                     !.scan.pc = "sort",
                     !.watching[Len(watch.watching)] =
                         IF rc = 0
                         THEN [@ EXCEPT !.unused = FALSE,
                                        !.displayable = TRUE,
                                        !.fd = 2 + Len(watch.watching)]
                         ELSE @]
    /\ UNCHANGED <<control, transfer, flags, status, loop, display, env,
                   remote, signal, calc, hist>>

\* watchpid.c 655-656: qsort starts to put the entries in order.
ScanSortBegins ==
    /\ ScanCanRun("sort")
    /\ watch' = [watch EXCEPT !.scan.pc = "sorting"]
    /\ UNCHANGED <<control, transfer, flags, status, loop, display, env,
                   remote, signal, calc, hist>>

\* watchpid.c 656-658: qsort is done and the scan returns; the loop comes
\* back to it in its next pass (loop.c 941-949).
ScanSortEnds ==
    /\ ScanCanRun("sorting")
    /\ watch' = [watch EXCEPT !.scan.pc = "scan"]
    /\ UNCHANGED <<control, transfer, flags, status, loop, display, env,
                   remote, signal, calc, hist>>

(* ------------------------- the calculated state ----------------------- *)

\* The most bytes that are transferred, and the most seconds a transfer
\* lasts, when the data comes and goes.
MaxTransferred == 3

\* The number of seconds the data keeps flowing for when it flows steadily.
FlowHorizon == 100

RECURSIVE GCD(_, _)
GCD(a, b) == IF b = 0 THEN a ELSE GCD(b, a % b)

\* A double or long double value, held exactly as a fraction in lowest
\* terms with a positive denominator.
Ratio(n, d) ==
    LET g == GCD(IF n < 0 THEN -n ELSE n, d)
    IN  [num |-> n \div g, den |-> d \div g]

Whole(n) == [num |-> n, den |-> 1]
Less(p, q) == p.num * q.den < q.num * p.den
Sum(p, q) == Ratio(p.num * q.den + q.num * p.den, p.den * q.den)

\* state.c 89-101 (pv_reset_calc): the calculated state at the start.  The
\* rate statistics and the history of the average rate are left out.
InitialCalc ==
    [transfer_rate |-> Whole(0), prev_elapsed_sec |-> 0,
     prev_rate |-> Whole(0), prev_trans |-> 0, prev_transferred |-> 0,
     percentage |-> Whole(0)]

\* The amount as a part in a thousand of the total.
PerThousand(amount, total) ==
    IF total < 1 THEN Whole(0) ELSE Ratio(1000 * amount, total)

\* number.c 291-304: the amount as a percentage of the total.
pv_percentage(amount, total) ==
    IF total < 1 THEN Whole(0) ELSE Ratio(100 * amount, total)

\* A percentage that stays where it is.
SawToothHeld(percentage, transfer_rate) == percentage

\* calc.c 171-174: with no size known the percentage rises by 2 while data
\* is arriving and starts again from 0 once it is over 199.
SawTooth(percentage, transfer_rate) ==
    LET raised == IF Less(Whole(0), transfer_rate)
                  THEN Sum(percentage, Whole(2)) ELSE percentage
    IN  IF Less(Whole(199), raised) THEN Whole(0) ELSE raised

\* calc.c 179-182: the percentage is kept from being negative or huge.
PercentageKept(percentage) ==
    IF Less(percentage, Whole(0)) THEN Whole(0)
    ELSE IF Less(Whole(100000), percentage) THEN Whole(100000)
    ELSE percentage

\* calc.c 82-183: pv_calculate_transfer_rate.  The rate is that of the
\* bytes since the last update over the time since, unless that time is
\* 0.01 seconds or less, when the last rate is kept and the bytes are put
\* by (96-135); the final update gives the rate of the whole transfer
\* (146-155); then the percentage (160-182).
pv_calculate_transfer_rate(k, t, c, d, final) ==
    LET bytes_since_last == IF t.transferred >= 0
                            THEN t.transferred - k.prev_transferred ELSE 0
        prev_transferred == IF t.transferred >= 0
                            THEN t.transferred ELSE k.prev_transferred
        time_since_last == t.elapsed_seconds - k.prev_elapsed_sec
        too_soon == 100 * time_since_last <= 1
        rate_now == IF too_soon THEN k.prev_rate
                    ELSE Ratio(bytes_since_last + k.prev_trans,
                               time_since_last)
        rate_final == IF t.elapsed_seconds = 0
                      THEN Whole(1000000 * (t.transferred - d.initial_offset))
                      ELSE Ratio(t.transferred - d.initial_offset,
                                 t.elapsed_seconds)
        transfer_rate == IF final THEN rate_final ELSE rate_now
        percentage == IF c.size <= 0
                      THEN SawTooth(k.percentage, transfer_rate)
                      ELSE pv_percentage(t.transferred, c.size)
    IN  [transfer_rate |-> transfer_rate,
         prev_elapsed_sec |-> IF too_soon THEN k.prev_elapsed_sec
                              ELSE t.elapsed_seconds,
         prev_rate |-> rate_now,
         prev_trans |-> IF too_soon THEN k.prev_trans + bytes_since_last
                        ELSE 0,
         prev_transferred |-> prev_transferred,
         percentage |-> PercentageKept(percentage)]

\* loop.c 571-605 and display.c (pv_display): by the time of an update
\* some bytes more have been transferred and some seconds more have
\* passed, and the update calculates from them; the final update is the
\* last.
Update(pc, bytes, seconds, final, most) ==
    /\ loop.pc = pc
    /\ transfer.transferred + bytes <= most
    /\ transfer.elapsed_seconds + seconds <= most
    /\ transfer' = [transfer EXCEPT !.transferred = @ + bytes,
                                    !.elapsed_seconds = @ + seconds]
    /\ calc' = pv_calculate_transfer_rate(calc, transfer', control, display,
                                          final)
    /\ loop' = [loop EXCEPT !.pc = IF final THEN "done" ELSE @]
    /\ UNCHANGED <<control, flags, status, display, env, watch, remote,
                   signal, hist>>

\* An update after data has arrived, some time after the last one.
FlowUpdate ==
    \E bytes \in 1 .. 2 : Update("calc", bytes, 1, FALSE, MaxTransferred)

\* An update with nothing new to count, at once or some time after the
\* last one.
IdleUpdate ==
    \E seconds \in 0 .. 1 : Update("calc", 0, seconds, FALSE, MaxTransferred)

\* An update after data has arrived, at once after the last one.
QuickUpdate == Update("calc", 1, 0, FALSE, MaxTransferred)

\* loop.c 582-591: the final update.
LastUpdate ==
    \E bytes \in 0 .. 1 : Update("calc", bytes, 0, TRUE, MaxTransferred)

\* Data flowing steadily: an update a second, a byte more each time.
SteadyUpdate == Update("flow", 1, 1, FALSE, FlowHorizon)

\* An update at once after the last one while data flows steadily.
ExtraUpdate == Update("flow", 0, 0, FALSE, FlowHorizon)

(* ------------------------------- the start ---------------------------- *)

\* The settings pv is started with.
DefaultControl ==
    [linemode |-> FALSE, null_terminated_lines |-> FALSE,
     stop_at_size |-> FALSE, size |-> 0, rate_limit |-> 0,
     skip_errors |-> 0, error_skip_block |-> 0, no_splice |-> TRUE,
     sync_after_write |-> FALSE, discard_input |-> FALSE,
     target_buffer_size |-> BufferSize,
     delay_start |-> 0, interval |-> 1, wait |-> FALSE, no_display |-> FALSE,
     width |-> 2, height |-> 2,
     width_set_manually |-> FALSE, height_set_manually |-> FALSE,
     name |-> NoText, format_string |-> NoText, extra_display_spec |-> NoText]

\* Settings without a size, a rate limit or error skipping.
Controls ==
    {DefaultControl,
     [DefaultControl EXCEPT !.linemode = TRUE],
     [DefaultControl EXCEPT !.delay_start = 2, !.interval = 2]}

\* Settings that skip read errors.
SkipControls == {[DefaultControl EXCEPT !.skip_errors = 1]}

\* Settings that stop at a size, reading with read() or splice(), with and
\* without a rate limit.
StopControls ==
    {[DefaultControl EXCEPT !.stop_at_size = TRUE, !.size = 2],
     [DefaultControl EXCEPT !.stop_at_size = TRUE, !.size = 2,
                            !.no_splice = FALSE],
     [DefaultControl EXCEPT !.stop_at_size = TRUE, !.size = 2,
                            !.rate_limit = 20]}

\* Stopping at a size larger than the buffer, with splice().
StopLateControls ==
    {[DefaultControl EXCEPT !.stop_at_size = TRUE, !.size = 3,
                            !.no_splice = FALSE]}

\* Settings with a rate limit of one byte a second.
RateControls == {[DefaultControl EXCEPT !.rate_limit = 1]}

\* Settings that sync the output after each write, reading with read() or
\* splice().
SyncControls ==
    {[DefaultControl EXCEPT !.sync_after_write = TRUE],
     [DefaultControl EXCEPT !.sync_after_write = TRUE, !.no_splice = FALSE]}

\* The length of a file with no readable byte.
UnreadableLength == 21

\* A file that gives a read error at every offset.
UnreadableFile ==
    [files |-> <<[k \in 1 .. UnreadableLength |-> "a"]>>,
     bad |-> <<0 .. UnreadableLength - 1>>]

\* One input file, all of it readable.
GoodFile == [files |-> <<<<"a", "nl", "a">>>>, bad |-> <<{}>>]
\* The same with its second byte unreadable.
BadFile == [files |-> <<<<"a", "nl", "a">>>>, bad |-> <<{1}>>]
\* Two input files.
TwoFiles == [files |-> <<<<"nl", "a">>, <<"a">>>>, bad |-> <<{}, {}>>]
\* Two input files with unreadable bytes, the first with two of them.
TwoBadFiles == [files |-> <<<<"a", "a">>, <<"a">>>>, bad |-> <<{0, 1}, {0}>>]
\* A short file.
ShortFile == [files |-> <<<<"a", "a">>>>, bad |-> <<{}>>]

\* A file longer than the size that StopLateControls stop at.
LongFile == [files |-> <<<<"a", "nl", "a", "a", "a">>>>, bad |-> <<{}>>]

\* The input files, each with the offsets of its unreadable bytes.
Inputs == {GoodFile, BadFile, TwoFiles}

\* state.c 112-135 (pv_reset_transfer), with no buffer allocated yet.
InitialTransfer ==
    [allocated |-> FALSE, buffer |-> <<>>, buffer_size |-> 0,
     read_position |-> 0, write_position |-> 0,
     to_write |-> 0, written |-> 0,
     total_bytes_read |-> 0, total_written |-> 0, transferred |-> 0,
     written_but_not_consumed |-> 0, elapsed_seconds |-> 0,
     read_errors_in_a_row |-> 0, last_read_skip_fd |-> 0,
     read_error_warning_shown |-> FALSE,
     splice_failed_fd |-> -1, splice_used |-> FALSE,
     line_positions_allocated |-> FALSE, line_positions |-> EmptyRing,
     line_positions_head |-> 0, line_positions_length |-> 0,
     last_output_position |-> 0]

\* main.c 163-267: no store-and-forward file was given.  pass is the pass
\* of pv__store_and_forward that runs (0 when it is not in use), retcode
\* the value it returns, input what the input files held when it began.
SafOff == [pass |-> 0, retcode |-> {}, input |-> <<>>]

\* loop.c 238-277: the loop's variables when it is first entered.
InitialLoop(c) ==
    [pc |-> "top", eof_in |-> FALSE, eof_out |-> FALSE,
     final_update |-> FALSE, cansend |-> 0, written |-> 0,
     lineswritten |-> 0, target |-> 0, cur_time |-> 0,
     next_update |-> IF c.delay_start > 0 /\ c.delay_start > c.interval
                     THEN c.delay_start ELSE c.interval,
     next_ratecheck |-> 0, next_remotecheck |-> 0,
     file_idx |-> 0, input_fd |-> 3, saf |-> SafOff]

\* The states pv can start in: the settings, the input files, whether the
\* output is a pipe, the instants the clock is read at, the messages
\* other pvs may send and the errors a signal may end a read with.
InitWithInterrupts(cs, ins, pipes, instants, messages, interrupts) ==
    /\ control \in cs
    /\ transfer = InitialTransfer
    /\ flags = InitialFlags
    /\ status = {}
    /\ loop = InitialLoop(control)
    /\ display = [output_produced |-> FALSE, final_update |-> FALSE,
                  transferred |-> 0, reparsed |-> FALSE]
    /\ \E i \in ins, p \in pipes :
         env = [files |-> i.files, bad |-> i.bad, cur |-> 1, in_off |-> 0,
                input_seekable |-> TRUE,
                out |-> <<>>, output_is_pipe |-> p, pipe_unread |-> 0,
                reader_gone |-> FALSE,
                instants |-> instants, messages |-> messages,
                interrupts |-> interrupts]
    /\ watch = WatchOff
    /\ remote = RemoteOff
    /\ signal = SignalOff
    /\ calc = InitialCalc
    /\ hist = [warnings |-> 0, skipped |-> 0, traces |-> 0, spliced |-> 0,
               write_errno |-> NoError, read_errno |-> NoError,
               sync_errno |-> NoError, splice_tried |-> FALSE,
               splice_failed |-> {}, splice_einval |-> {}, skip_chosen |-> 0,
               file_warnings |-> [f \in 1 .. Len(env.files) |-> 0],
               file_errors |-> [f \in 1 .. Len(env.files) |-> 0],
               eof_out_set |-> FALSE, displays |-> 0, displayed_at |-> -1,
               displayed_before |-> -1]

\* The states pv can start in when no call of its is interrupted.
InitWith(cs, ins, pipes, instants, messages) ==
    InitWithInterrupts(cs, ins, pipes, instants, messages, {})

\* A remote request for a buffer one larger than the initial one.
LargerBuffer == [NoMessage EXCEPT !.buffer_size = BufferSize + 1]

Init == InitWith(Controls, Inputs, BOOLEAN, 0 .. MaxTime, {LargerBuffer})

InitSkip ==
    InitWith(SkipControls, Inputs \cup {TwoBadFiles}, BOOLEAN, 0 .. MaxTime,
             {LargerBuffer})

InitStop ==
    \/ InitWith(StopControls, {GoodFile, ShortFile}, BOOLEAN, 0 .. MaxTime,
                {LargerBuffer})
    \/ InitWith(StopLateControls, {LongFile}, BOOLEAN, 0 .. MaxTime,
                {LargerBuffer})

InitSync ==
    InitWith(SyncControls, {ShortFile}, BOOLEAN, 0 .. MaxTime, {LargerBuffer})

\* A long unreadable file copied to a regular file, or a short file copied
\* to a pipe.
InitSchedule ==
    \/ InitWith(SkipControls, {UnreadableFile}, {FALSE}, {0, 1}, {})
    \/ InitWith(SkipControls, {ShortFile}, {TRUE}, {0, 1}, {})

\* The clock reading by which a bucket left alone has long been full.
RateHorizon == 60

InitRate == InitWith(RateControls, {ShortFile}, BOOLEAN, {0, RateHorizon}, {})

\* pv started with -d, to watch the given descriptors of other processes.
InitWatchWith(watching, instants, messages) ==
    /\ control = DefaultControl
    /\ transfer = InitialTransfer
    /\ flags = InitialFlags
    /\ status = {}
    /\ loop = [InitialLoop(control) EXCEPT !.pc = "off"]
    /\ display = [output_produced |-> FALSE, final_update |-> FALSE,
                  transferred |-> 0, reparsed |-> FALSE]
    /\ env = [files |-> <<>>, bad |-> <<>>, cur |-> 1, in_off |-> 0,
              input_seekable |-> TRUE,
              out |-> <<>>, output_is_pipe |-> FALSE, pipe_unread |-> 0,
              reader_gone |-> FALSE,
              instants |-> instants, messages |-> messages,
              interrupts |-> {}]
    /\ watch = [WatchOff EXCEPT !.pc = "start", !.watching = watching]
    /\ remote = RemoteOff
    /\ signal = SignalOff
    /\ calc = InitialCalc
    /\ hist = [warnings |-> 0, skipped |-> 0, traces |-> 0, spliced |-> 0,
               write_errno |-> NoError, read_errno |-> NoError,
               sync_errno |-> NoError, splice_tried |-> FALSE,
               splice_failed |-> {}, splice_einval |-> {}, skip_chosen |-> 0,
               file_warnings |-> [f \in 1 .. Len(env.files) |-> 0],
               file_errors |-> [f \in 1 .. Len(env.files) |-> 0],
               eof_out_set |-> FALSE, displays |-> 0, displayed_at |-> -1,
               displayed_before |-> -1]

InitWatch ==
    InitWatchWith(<<WatchedFd(0), WatchedFd(2)>>, 0 .. MaxWatchTime,
                  {LargerBuffer})

\* A plain copy some of whose read() and select() calls are interrupted.
InitInterrupt ==
    InitWithInterrupts({DefaultControl}, {GoodFile, TwoFiles}, BOOLEAN,
                       0 .. MaxTime, {}, {"EINTR", "EAGAIN"})

\* pv run to watch one descriptor of a process, or all the descriptors of
\* a process.
InitWatchOne ==
    \E w \in {WatchedFd(0), WatchedPid} :
        InitWatchWith(<<w>>, 0 .. WatchHorizon, {})

\* pv run to transfer a short file or to watch descriptors.
InitExit ==
    \/ InitWith({DefaultControl}, {ShortFile}, BOOLEAN, 0 .. MaxTime,
                {LargerBuffer})
    \/ InitWatch

Next ==
    \/ LoopTop
    \/ Transfer
    \/ Post
    \/ Display
    \/ LoopEnd
    \/ pv_sig_term
    \/ ConsumerRead
    \/ ConsumerClose

Spec == Init /\ [][Next]_vars
SpecSkip == InitSkip /\ [][Next]_vars
SpecStop == InitStop /\ [][Next]_vars
SpecRate == InitRate /\ [][Next]_vars
SpecSync == InitSync /\ [][Next]_vars
SpecSchedule == InitSchedule /\ [][Next]_vars
SpecInterrupt == InitInterrupt /\ [][Next]_vars

\* Either of pv's two loops.
NextExit ==
    \/ LoopTop
    \/ Transfer
    \/ Post
    \/ Display
    \/ LoopEnd
    \/ pv_sig_term
    \/ ConsumerRead
    \/ ConsumerClose
    \/ WatchStart
    \/ WatchTop
    \/ WatchScan
    \/ WatchEnd

SpecExit == InitExit /\ [][NextExit]_vars

\* The loop that watches descriptors.
NextWatch ==
    \/ WatchStart
    \/ WatchTop
    \/ WatchScan
    \/ WatchEnd

SpecWatch == InitWatchOne /\ [][NextWatch]_vars

\* The settings of a sender: intervals and sizes below, within and above
\* the bounds, set by hand or not.
SenderSettings ==
    RemoteSettings({0, 1, 3, REMOTE_INTERVAL_MAX + 1},
                   {0, REMOTE_DIMENSION_MAX + 1},
                   {3, REMOTE_DIMENSION_MAX + 1}, BOOLEAN)

\* A running pv, its interval and sizes within the bounds, and another
\* process about to send it new settings or to ask for its transfer state.
InitRemoteFrom(controls, remotes) ==
    /\ control \in controls
    /\ transfer = [InitialTransfer EXCEPT !.transferred = 2]
    /\ flags = InitialFlags
    /\ status = {}
    /\ loop = [InitialLoop(control) EXCEPT !.pc = "off"]
    /\ display = [output_produced |-> FALSE, final_update |-> FALSE,
                  transferred |-> 0, reparsed |-> FALSE]
    /\ env = [files |-> <<>>, bad |-> <<>>, cur |-> 1, in_off |-> 0,
              input_seekable |-> TRUE,
              out |-> <<>>, output_is_pipe |-> FALSE, pipe_unread |-> 0,
              reader_gone |-> FALSE,
              instants |-> {0}, messages |-> {}, interrupts |-> {}]
    /\ watch = WatchOff
    /\ remote \in remotes
    /\ signal = SignalOff
    /\ calc = InitialCalc
    /\ hist = [warnings |-> 0, skipped |-> 0, traces |-> 0, spliced |-> 0,
               write_errno |-> NoError, read_errno |-> NoError,
               sync_errno |-> NoError, splice_tried |-> FALSE,
               splice_failed |-> {}, splice_einval |-> {}, skip_chosen |-> 0,
               file_warnings |-> [f \in 1 .. Len(env.files) |-> 0],
               file_errors |-> [f \in 1 .. Len(env.files) |-> 0],
               eof_out_set |-> FALSE, displays |-> 0, displayed_at |-> -1,
               displayed_before |-> -1]

\* The same, the receiver with its interval at the least and no text set.
InitRemoteWith(remotes) ==
    InitRemoteFrom({[DefaultControl EXCEPT !.interval = REMOTE_INTERVAL_MIN]},
                   remotes)

InitRemote ==
    InitRemoteWith({[RemoteOff EXCEPT !.pc = "start", !.op = op,
                                      !.settings = settings,
                                      !.clamped = clamped] :
                       op \in {"set", "query"}, settings \in SenderSettings,
                       clamped \in BOOLEAN})

\* The two sides of a remote-control or query handshake.
NextRemote ==
    \/ RemoteSetSend
    \/ OtherSetSend
    \/ RemoteSetWait
    \/ RxUsr2Read
    \/ RxUsr2Apply
    \/ QuerySend
    \/ QueryWait
    \/ RxUsr1Query
    \/ SenderSigTerm

SpecRemote == InitRemote /\ [][NextRemote]_vars

\* The messages a process may leave for a running pv before it sends
\* SIGUSR1: queries and responses.
QueryMessages ==
    [response : BOOLEAN, elapsed_seconds : {0, 1},
     transferred : 0 .. MaxQueried, size : 0 .. MaxQueried]

\* A pv in the middle of a transfer, and another process about to send it
\* SIGUSR1 with a message of its own.
InitUsr1 ==
    InitRemoteWith({[RemoteOff EXCEPT !.pc = "start", !.op = "usr1",
                                      !.settings = m] : m \in QueryMessages})

NextUsr1 ==
    \/ OtherUsr1Send
    \/ RxUsr1Query

SpecUsr1 == InitUsr1 /\ [][NextUsr1]_vars

\* The messages of a sender that may name the transfer, give a format and
\* ask for an extra display, and may set an interval.
TextSettings ==
    {[m EXCEPT !.name = n, !.format = f, !.extra_display = x] :
        m \in RemoteSettings({0, 3}, {0}, {0}, {FALSE}),
        n \in {NoText, "new"}, f \in {NoText, "%b"},
        x \in {NoText, "window"}}

\* A running pv that has a name, a format and an extra display, or none of
\* them, and a pv about to send it new settings.
InitText ==
    InitRemoteFrom({[DefaultControl EXCEPT !.interval = REMOTE_INTERVAL_MIN],
                    [DefaultControl EXCEPT !.interval = REMOTE_INTERVAL_MIN,
                                           !.name = "old",
                                           !.format_string = "%p",
                                           !.extra_display_spec = "proc"]},
                   {[RemoteOff EXCEPT !.pc = "start", !.op = "set",
                                      !.settings = m] : m \in TextSettings})

\* The sender of settings and the receiver.
NextText ==
    \/ RemoteSetSend
    \/ RemoteSetWait
    \/ RxUsr2Read
    \/ RxUsr2Apply

SpecText == InitText /\ [][NextText]_vars

\* A running pv and two processes about to send it new settings.
InitTwoSenders == InitRemoteWith({TwoSenders})

\* The two senders and the receiver.
NextTwoSenders ==
    \/ \E p \in Senders : SetSend(p)
    \/ \E p \in Senders : SetWait(p)
    \/ RxRead
    \/ RxApply

SpecTwoSenders == InitTwoSenders /\ [][NextTwoSenders]_vars

\* A running pv that watches three descriptors, one of them of a process
\* that is gone and one not in use, about to be stopped and continued.
InitSignal ==
    /\ control = DefaultControl
    /\ transfer = InitialTransfer
    /\ flags = InitialFlags
    /\ status = {}
    /\ loop = [InitialLoop(control) EXCEPT !.pc = "off"]
    /\ display = [output_produced |-> FALSE, final_update |-> FALSE,
                  transferred |-> 0, reparsed |-> FALSE]
    /\ env = [files |-> <<>>, bad |-> <<>>, cur |-> 1, in_off |-> 0,
              input_seekable |-> TRUE,
              out |-> <<>>, output_is_pipe |-> FALSE, pipe_unread |-> 0,
              reader_gone |-> FALSE,
              instants |-> {0}, messages |-> {}, interrupts |-> {}]
    /\ watch = [WatchOff EXCEPT
                  !.watching = <<WatchedFd(0),
                                 [WatchedFd(0) EXCEPT !.finished = TRUE],
                                 [WatchedFd(0) EXCEPT !.unused = TRUE]>>]
    /\ remote = RemoteOff
    /\ signal = [SignalOff EXCEPT !.main.pc = "clock"]
    /\ calc = InitialCalc
    /\ hist = [warnings |-> 0, skipped |-> 0, traces |-> 0, spliced |-> 0,
               write_errno |-> NoError, read_errno |-> NoError,
               sync_errno |-> NoError, splice_tried |-> FALSE,
               splice_failed |-> {}, splice_einval |-> {}, skip_chosen |-> 0,
               file_warnings |-> [f \in 1 .. Len(env.files) |-> 0],
               file_errors |-> [f \in 1 .. Len(env.files) |-> 0],
               eof_out_set |-> FALSE, displays |-> 0, displayed_at |-> -1,
               displayed_before |-> -1]

(* ------------------------- store and forward ------------------------- *)

\* main.c 229-231 with the test turned round: the second pass is run
\* after a first pass that failed.
SecondPassOnError(retcode) == retcode # {}

\* main.c 229-231: the second pass is run only if the first pass returned 0.
SecondPassRuns(retcode) == retcode = {}

\* state.c 107-134: pv_reset_transfer, and loop.c 238-241 for what the loop
\* clears itself.  The buffer is kept; with both positions at 0 it holds
\* nothing.
pv_reset_transfer(t) ==
    [t EXCEPT !.elapsed_seconds = 0, !.read_position = 0,
              !.write_position = 0, !.to_write = 0, !.written = 0,
              !.total_bytes_read = 0, !.total_written = 0,
              !.written_but_not_consumed = 0, !.read_errors_in_a_row = 0,
              !.last_read_skip_fd = 0, !.splice_failed_fd = -1,
              !.line_positions_length = 0, !.line_positions_head = 0,
              !.last_output_position = 0, !.buffer = <<>>]

\* main.c 229-261: pv__store_and_forward between its two passes.  After a
\* first pass that returned anything but 0 it returns that.  Otherwise the
\* output is set back to the original destination, a pipe or not, and if
\* that cannot be opened PV_ERROREXIT_ACCESS is returned; the store file
\* becomes the one input, its size the size, the calculated state is reset
\* and the main loop is entered again.
SafForward ==
    /\ loop.pc = "done"
    /\ loop.saf.pass = 1
    /\ IF ~SecondPassRuns(status)
       THEN /\ loop' = [loop EXCEPT !.pc = "ended", !.saf.retcode = status]
            /\ UNCHANGED <<control, transfer, display, env, calc>>
       ELSE \E opened, pipe \in BOOLEAN :
              IF ~opened
              THEN /\ loop' = [loop EXCEPT
                                 !.pc = "ended",
                                 !.saf.retcode = {PV_ERROREXIT_ACCESS}]
                   /\ UNCHANGED <<control, transfer, display, env, calc>>
              ELSE /\ env' = [env EXCEPT !.files = <<env.out>>,
                                         !.bad = <<{}>>,
                                         !.cur = 1, !.in_off = 0,
                                         !.out = <<>>,
                                         !.output_is_pipe = pipe,
                                         !.pipe_unread = 0]
                   /\ control' = [control EXCEPT !.size = Len(env.out)]
                   /\ transfer' = pv_reset_transfer(transfer)
                   /\ display' = [display EXCEPT !.output_produced = FALSE]
                   /\ calc' = InitialCalc
                   /\ loop' = [InitialLoop(control') EXCEPT
                                 !.saf = [loop.saf EXCEPT !.pass = 2]]
    /\ UNCHANGED <<flags, status, watch, remote, signal, hist>>

\* pv with a store-and-forward file, with or without the skipping of read
\* errors, at the start of its first pass: the output is the store file.
InitSaf ==
    /\ control \in {DefaultControl, [DefaultControl EXCEPT !.skip_errors = 1]}
    /\ transfer = InitialTransfer
    /\ flags = InitialFlags
    /\ status = {}
    /\ display = [output_produced |-> FALSE, final_update |-> FALSE,
                  transferred |-> 0, reparsed |-> FALSE]
    /\ \E i \in {GoodFile, BadFile, TwoFiles} :
         env = [files |-> i.files, bad |-> i.bad, cur |-> 1, in_off |-> 0,
                input_seekable |-> TRUE,
                out |-> <<>>, output_is_pipe |-> FALSE, pipe_unread |-> 0,
                reader_gone |-> FALSE,
                instants |-> {0}, messages |-> {}, interrupts |-> {}]
    /\ loop = [InitialLoop(control) EXCEPT
                  !.saf = [pass |-> 1, retcode |-> {},
                           input |-> Concat(env.files)]]
    /\ watch = WatchOff
    /\ remote = RemoteOff
    /\ signal = SignalOff
    /\ calc = InitialCalc
    /\ hist = [warnings |-> 0, skipped |-> 0, traces |-> 0, spliced |-> 0,
               write_errno |-> NoError, read_errno |-> NoError,
               sync_errno |-> NoError, splice_tried |-> FALSE,
               splice_failed |-> {}, splice_einval |-> {}, skip_chosen |-> 0,
               file_warnings |-> [f \in 1 .. Len(env.files) |-> 0],
               file_errors |-> [f \in 1 .. Len(env.files) |-> 0],
               eof_out_set |-> FALSE, displays |-> 0, displayed_at |-> -1,
               displayed_before |-> -1]

\* The main loop in either pass, and the step between the passes.
NextSaf ==
    \/ Next
    \/ SafForward

SpecSaf == InitSaf /\ [][NextSaf]_vars

\* A running pv that watches all the descriptors of a process, one of them
\* known so far, about to be stopped and continued while it rescans.
InitScan ==
    /\ control = DefaultControl
    /\ transfer = InitialTransfer
    /\ flags = InitialFlags
    /\ status = {}
    /\ loop = [InitialLoop(control) EXCEPT !.pc = "off"]
    /\ display = [output_produced |-> FALSE, final_update |-> FALSE,
                  transferred |-> 0, reparsed |-> FALSE]
    /\ env = [files |-> <<>>, bad |-> <<>>, cur |-> 1, in_off |-> 0,
              input_seekable |-> TRUE,
              out |-> <<>>, output_is_pipe |-> FALSE, pipe_unread |-> 0,
              reader_gone |-> FALSE,
              instants |-> {0}, messages |-> {}, interrupts |-> {}]
    /\ watch = [WatchOff EXCEPT !.watching = <<WatchedPid>>,
                                !.scan.pc = "scan"]
    /\ remote = RemoteOff
    /\ signal = [SignalOff EXCEPT !.main.pc = "watch"]
    /\ calc = InitialCalc
    /\ hist = [warnings |-> 0, skipped |-> 0, traces |-> 0, spliced |-> 0,
               write_errno |-> NoError, read_errno |-> NoError,
               sync_errno |-> NoError, splice_tried |-> FALSE,
               splice_failed |-> {}, splice_einval |-> {}, skip_chosen |-> 0,
               file_warnings |-> [f \in 1 .. Len(env.files) |-> 0],
               file_errors |-> [f \in 1 .. Len(env.files) |-> 0],
               eof_out_set |-> FALSE, displays |-> 0, displayed_at |-> -1,
               displayed_before |-> -1]

\* pv in its rescans, the signals sent to it and the clock.
NextScan ==
    \/ Tick
    \/ StopSignalSent
    \/ ContSent
    \/ Deliver
    \/ HandlerStep
    \/ ScanExtend
    \/ ScanAssign
    \/ ScanFill
    \/ ScanSortBegins
    \/ ScanSortEnds

SpecScan == InitScan /\ [][NextScan]_vars

\* pv, the signals sent to it and the clock.
NextSignal ==
    \/ Tick
    \/ StopSignalSent
    \/ ContSent
    \/ Deliver
    \/ HandlerStep
    \/ LoopReadsClock
    \/ LoopReadsStoppage
    \/ LoopUsesElapsed

SpecSignal == InitSignal /\ [][NextSignal]_vars

\* The same, with what the kernel and the processor see to: a signal that
\* waits and is not blocked is delivered, and the handlers and the loop
\* take their steps when they can run.  Nothing is assumed of the signals
\* sent from outside.
SpecSignalFair ==
    /\ SpecSignal
    /\ WF_vars(Deliver)
    /\ WF_vars(HandlerStep)
    /\ WF_vars(LoopReadsClock \/ LoopReadsStoppage \/ LoopUsesElapsed)

\* A transfer of a size not known, or known and smaller than what is to
\* come, at its first update.
InitCalcWith(sizes, pc) ==
    /\ control \in {[DefaultControl EXCEPT !.size = n] : n \in sizes}
    /\ transfer = InitialTransfer
    /\ flags = InitialFlags
    /\ status = {}
    /\ loop = [InitialLoop(control) EXCEPT !.pc = pc]
    /\ display = [output_produced |-> FALSE, final_update |-> FALSE,
                  transferred |-> 0, reparsed |-> FALSE, initial_offset |-> 0]
    /\ env = [files |-> <<>>, bad |-> <<>>, cur |-> 1, in_off |-> 0,
              input_seekable |-> TRUE,
              out |-> <<>>, output_is_pipe |-> FALSE, pipe_unread |-> 0,
              reader_gone |-> FALSE,
              instants |-> {0}, messages |-> {}, interrupts |-> {}]
    /\ watch = WatchOff
    /\ remote = RemoteOff
    /\ signal = SignalOff
    /\ calc = InitialCalc
    /\ hist = [warnings |-> 0, skipped |-> 0, traces |-> 0, spliced |-> 0,
               write_errno |-> NoError, read_errno |-> NoError,
               sync_errno |-> NoError, splice_tried |-> FALSE,
               splice_failed |-> {}, splice_einval |-> {}, skip_chosen |-> 0,
               file_warnings |-> [f \in 1 .. Len(env.files) |-> 0],
               file_errors |-> [f \in 1 .. Len(env.files) |-> 0],
               eof_out_set |-> FALSE, displays |-> 0, displayed_at |-> -1,
               displayed_before |-> -1]

InitCalc == InitCalcWith(0 .. 2, "calc")

\* The updates of a transfer whose data comes and goes.
NextCalc ==
    \/ FlowUpdate
    \/ IdleUpdate
    \/ QuickUpdate
    \/ LastUpdate

SpecCalc == InitCalc /\ [][NextCalc]_vars

\* A transfer of a size not known whose data flows steadily.
InitFlow == InitCalcWith({0}, "flow")

NextFlow ==
    \/ SteadyUpdate
    \/ ExtraUpdate

\* The display is updated once a second whatever else happens (loop.c
\* 582-605), so the steady update is taken again and again.
SpecFlow == InitFlow /\ [][NextFlow]_vars /\ WF_vars(SteadyUpdate)

(* ------------------------------ properties ---------------------------- *)

\* The loop has ended, and with no error bit and no signal bit set.
FinishedCleanly == loop.pc = "done" /\ status = {}

\* A plain copy between regular files: bytes are counted, nothing is
\* discarded, limited or skipped.
PlainCopy ==
    /\ ~env.output_is_pipe
    /\ ~control.linemode
    /\ control.rate_limit = 0
    /\ control.skip_errors = 0
    /\ ~control.stop_at_size
    /\ ~control.discard_input

\* C1: with no rate limit, skip-errors off and regular files as input and
\* output, when the main loop finishes (without an error) the output holds
\* exactly the input bytes in order, and total_written is the input's size.
C1_ExactCopy ==
    (FinishedCleanly /\ PlainCopy) =>
        /\ env.out = Concat(env.files)
        /\ transfer.total_written = Len(Concat(env.files))

\* C1's case: a plain copy of two files has finished, the buffer having
\* been enlarged on the way.
C1_Witness ==
    /\ FinishedCleanly
    /\ PlainCopy
    /\ Len(env.files) = 2
    /\ transfer.buffer_size > BufferSize
    /\ Len(env.out) = 3

\* C2: whenever pv_transfer has returned,
\* 0 <= write_position <= read_position <= buffer_size.
C2_CursorsInBounds ==
    /\ 0 <= transfer.write_position
    /\ transfer.write_position <= transfer.read_position
    /\ transfer.read_position <= transfer.buffer_size

\* C3, as claimed: in bytes mode the bytes read are never fewer than the
\* bytes written.
C3_ReadAtLeastWritten ==
    ~control.linemode => transfer.total_bytes_read >= transfer.total_written

\* C3, amended: in bytes mode the bytes read, together with the bytes
\* zero-filled in place of input skipped after a read error, are never fewer
\* than the bytes written; with nothing skipped, the bytes read alone.
C3_ReadOrSkippedAtLeastWritten ==
    ~control.linemode =>
        /\ transfer.total_bytes_read + hist.skipped >= transfer.total_written
        /\ (hist.skipped = 0 =>
                transfer.total_bytes_read >= transfer.total_written)

\* C3's case: zero-filled bytes have been written and counted, so that more
\* was written than read.
C3_Witness ==
    /\ ~control.linemode
    /\ hist.skipped > 0
    /\ transfer.total_written > transfer.total_bytes_read
    /\ transfer.total_bytes_read > 0

\* Stop-at-size is in force and bytes are counted.
StopsAtSize == control.stop_at_size /\ control.size > 0 /\ ~control.linemode

\* C4: with stop-at-size and a size > 0 in bytes mode, the bytes that have
\* reached the output, and the bytes counted as written, never exceed size.
C4_NeverBeyondSize ==
    StopsAtSize =>
        /\ Len(env.out) <= control.size
        /\ transfer.total_written <= control.size

\* C4's case: the loop has ended with exactly size bytes written, moved by
\* splice(), from an input that is longer.
C4_Witness ==
    /\ StopsAtSize
    /\ loop.pc = "done"
    /\ Len(env.out) = control.size
    /\ Len(CurFile(env)) > control.size
    /\ hist.spliced > 0

\* C5: with a rate limit R > 0 the budget handed to pv_transfer is at most
\* RATE_BURST_WINDOW * R bytes, and a call of pv_transfer puts no more bytes
\* into the output than its budget.
C5_BudgetCappedAndKept ==
    /\ [](control.rate_limit > 0 =>
             loop.cansend <= RATE_BURST_WINDOW * control.rate_limit)
    /\ [][(control.rate_limit > 0 /\ loop.pc = "transfer") =>
             Len(env'.out) - Len(env.out) <= loop.cansend]_vars

\* C5's case: the bucket was left to fill to its cap, and a call given that
\* budget has written.
C5_Witness ==
    /\ control.rate_limit > 0
    /\ loop.pc = "post"
    /\ loop.cansend = RATE_BURST_WINDOW * control.rate_limit
    /\ loop.written > 0

\* C6: at every tick the transferred amount, as computed and as handed to
\* the display, is at most total_written.
C6_TransferredAtMostWritten ==
    /\ transfer.transferred <= transfer.total_written
    /\ display.transferred <= transfer.total_written

\* C6's case: a display is due while part of what was written to the pipe
\* waits unread, so that less is shown as transferred than was written.
C6_Witness ==
    /\ loop.pc = "display"
    /\ env.output_is_pipe
    /\ transfer.written_but_not_consumed > 0
    /\ 0 < transfer.transferred
    /\ transfer.transferred < transfer.total_written

\* C7: a call of pv_transfer in which no write failed sets eof_out only if,
\* when it returns, eof_in is set and the buffer holds nothing unwritten.
C7_EofOutOnlyWhenDrained ==
    [][(/\ loop.pc = "transfer"
        /\ ~loop.eof_out
        /\ loop'.eof_out
        /\ hist'.write_errno = NoError)
       => (/\ loop'.eof_in
           /\ transfer'.read_position <= transfer'.write_position)]_vars

\* C7's case: the call that wrote the last bytes of the buffer, the input
\* having ended, has set eof_out.
C7_Witness ==
    /\ loop.pc = "post"
    /\ hist.eof_out_set
    /\ hist.write_errno = NoError
    /\ loop.eof_in
    /\ loop.written > 0
    /\ transfer.read_position = 0

\* C8: a tick (the accounting that follows a call of pv_transfer) that finds
\* eof_in and eof_out set and nothing unread in the output pipe leaves
\* final_update set, whatever delay_start is.
C8_FinalUpdateOnDrain ==
    [][(/\ loop.pc = "post"
        /\ loop'.pc # "post"
        /\ loop'.eof_in
        /\ loop'.eof_out
        /\ transfer'.written_but_not_consumed = 0)
       => loop'.final_update]_vars

\* C8's case: with a delayed start and nothing displayed yet, a tick has
\* found all written and the pipe drained, and has set final_update.
C8_Witness ==
    /\ control.delay_start > 0
    /\ ~display.output_produced
    /\ env.output_is_pipe
    /\ loop.pc = "top"
    /\ loop.eof_in
    /\ loop.eof_out
    /\ loop.final_update
    /\ loop.cur_time < loop.next_update
    /\ Len(env.out) > 0

\* A step in which pv_transfer is called.
TransferStarted == loop.pc = "transfer" /\ loop'.pc # "transfer"

\* A step in which pv_display is called, from either loop.
DisplayStarted ==
    \/ loop.pc = "display" /\ loop'.pc # "display"
    \/ /\ watch.pc = "scan"
       /\ watch'.pc # "scan"
       /\ watch'.prev_displayed_lines > 0

\* C9 as stated: once a handler has set trigger_exit, no transfer and no
\* display is started, in the main loop or in the watch loop.
C9_NothingStartedAfterExit ==
    [][flags.trigger_exit = 1 => ~(TransferStarted \/ DisplayStarted)]_vars

\* C9: trigger_exit is polled once in each iteration, at the top of the main
\* loop and of the watch loop.  An iteration that begins with the flag set
\* leaves the loop at once, with no transfer and no display, and the signal
\* bit is set in the exit status after the loop.
C9_NoIterationBegunAfterExit ==
    [][flags.trigger_exit = 1 =>
        /\ (loop.pc = "top" => loop'.pc \in {"top", "end"})
        /\ (watch.pc = "top" => watch'.pc \in {"top", "end"})
        /\ (loop.pc = "end" => PV_ERROREXIT_SIGNAL \in status')
        /\ (watch.pc = "end" => PV_ERROREXIT_SIGNAL \in status')]_vars

\* C9's case: a signal has ended the main loop with input still unread, or
\* the watch loop with a descriptor still watched.
C9_Witness ==
    /\ flags.trigger_exit = 1
    /\ PV_ERROREXIT_SIGNAL \in status
    /\ \/ loop.pc = "done" /\ ~loop.eof_in /\ transfer.total_written > 0
       \/ /\ watch.pc = "done"
          /\ watch.prev_displayed_lines > 0
          /\ \E k \in 1 .. Len(watch.watching) : ~watch.watching[k].finished

\* C10: when a write fails with EPIPE, pv_transfer sets eof_in, eof_out and
\* pipe_closed and returns to the loop without an error; unless the read of
\* the same call failed, the exit status is as it was before the call.
C10_EpipeIsOrderly ==
    [][(/\ loop.pc = "transfer"
        /\ loop'.pc # "transfer"
        /\ hist'.write_errno = "EPIPE") =>
        /\ loop'.eof_in
        /\ loop'.eof_out
        /\ flags'.pipe_closed = 1
        /\ loop'.pc = "post"
        /\ loop'.written >= 0
        /\ (hist'.read_errno = NoError => status' = status)]_vars

\* C10's case: a write has just failed with EPIPE, no error bit is set, and
\* bytes read are still unwritten.
C10_Witness ==
    /\ hist.write_errno = "EPIPE"
    /\ loop.pc = "post"
    /\ flags.pipe_closed = 1
    /\ loop.eof_in /\ loop.eof_out
    /\ status = {}
    /\ transfer.read_position > transfer.write_position

\* C11: whenever a write fails with an error other than EINTR, EAGAIN or
\* EPIPE, or the sync after a write() or after a splice() fails with EIO,
\* pv_transfer returns a negative value.
C11_WriteErrorReturnsNegative ==
    [][(/\ TransferStarted
        /\ \/ hist'.write_errno \notin {NoError, "EPIPE"}
           \/ hist'.sync_errno = "EIO") => loop'.written < 0]_vars

C13_SpliceCountsOnce ==
    [][(/\ TransferStarted
        /\ hist'.spliced > hist.spliced
        /\ hist'.sync_errno = NoError) =>
        LET n == hist'.spliced - hist.spliced
        IN  /\ transfer'.total_bytes_read = transfer.total_bytes_read + n
            /\ loop'.written = n
            /\ transfer'.read_position = transfer.read_position
            /\ transfer'.write_position = transfer.write_position]_vars

\* The input as it should come out when read errors are skipped: the files
\* one after the other, each unreadable byte replaced by a NUL.
InputWithHoles ==
    Concat([f \in 1 .. Len(env.files) |->
               [k \in 1 .. Len(env.files[f]) |->
                   IF (k - 1) \in env.bad[f] THEN "nul" ELSE env.files[f][k]]])

\* The loop ran to the end of the input: no signal, no closed pipe and no
\* error return of pv_transfer ended it.
RanToEnd ==
    /\ loop.pc = "done"
    /\ flags.trigger_exit = 0
    /\ flags.pipe_closed = 0
    /\ loop.written >= 0

\* C14: with skip-errors on and a seekable input, when the loop has run to
\* the end the output is as long as the input, each byte of it is the input
\* byte at the same offset or a NUL, and each unreadable byte is a NUL.
C14_SkipKeepsPositions ==
    (RanToEnd /\ control.skip_errors >= 1 /\ env.input_seekable) =>
        /\ Len(env.out) = Len(InputWithHoles)
        /\ \A i \in 1 .. Len(env.out) :
               /\ env.out[i] \in {Concat(env.files)[i], "nul"}
               /\ (InputWithHoles[i] = "nul" => env.out[i] = "nul")

\* C15: under skip-errors, each input that has had a read error has had the
\* warning exactly once, and an input without a read error has had none.
C15_OneWarningPerInput ==
    control.skip_errors >= 1 =>
        \A f \in 1 .. Len(env.files) :
            hist.file_warnings[f] = IF hist.file_errors[f] > 0 THEN 1 ELSE 0

\* A read error has just been skipped, or the skip abandoned at the end of
\* the input, with no explicit skip block size set.
ErrorJustSkipped ==
    /\ hist.read_errno \notin {NoError, "EINTR", "EAGAIN"}
    /\ control.skip_errors >= 1
    /\ control.error_skip_block = 0
    /\ loop.pc = "post"

\* C16 as stated: the amount chosen is 1 byte for the first 5 consecutive
\* errors, 2 bytes up to the 9th, 1 << (n - 10) from the 10th to the 19th,
\* and 512 bytes after that.
C16_ScheduleAsStated ==
    ErrorJustSkipped =>
        LET n == transfer.read_errors_in_a_row
        IN  hist.skip_chosen = IF n <= 5 THEN 1
                               ELSE IF n <= 9 THEN 2
                               ELSE IF n <= 19 THEN 2 ^ (n - 10)
                               ELSE 512

\* C16: with n the number of consecutive read errors, the one in hand
\* included, the amount chosen is 1 byte for n from 1 to 4, 2 bytes for n
\* from 5 to 9, 1 << (n - 10) for n from 10 to 19, and 512 bytes from 20 on.
C16_ScheduleFromCount ==
    ErrorJustSkipped =>
        LET n == transfer.read_errors_in_a_row
        IN  /\ n >= 1
            /\ hist.skip_chosen = IF n <= 4 THEN 1
                                  ELSE IF n <= 9 THEN 2
                                  ELSE IF n <= 19 THEN 2 ^ (n - 10)
                                  ELSE 512

\* C16's case: the twentieth read error in a row has been met, and 512
\* bytes chosen to skip.
C16_Witness ==
    /\ ErrorJustSkipped
    /\ transfer.read_errors_in_a_row = 20
    /\ hist.skip_chosen = 512

\* The message a sender's file holds once written.
MessageSent ==
    IF remote.clamped THEN Clamped(remote.settings) ELSE remote.settings

\* C17 as stated: once the sender of a remote-control message has seen the
\* acknowledgement, the receiver has put the message's settings in effect.
C17_AckAfterApplied ==
    (remote.op = "set" /\ remote.received) => remote.applied = <<MessageSent>>

\* C17: the acknowledgement is sent once the message has been read from
\* the sender's file, and the settings are put in effect after it: when the
\* acknowledgement is on its way or seen, the receiver holds the message
\* the sender wrote, and what it puts in effect is that message.
C17_AckAfterRead ==
    /\ (remote.op = "set" /\ (remote.sender_rxusr2 \/ remote.received))
           => remote.msgbuf = <<MessageSent>>
    /\ remote.applied # <<>> => /\ remote.applied = <<MessageSent>>
                               /\ control = ApplySettings(
                                      [DefaultControl EXCEPT
                                          !.interval = REMOTE_INTERVAL_MIN],
                                      MessageSent)

\* The sender has seen the acknowledgement and removed its file while the
\* receiver has yet to put the settings in effect.
C17_Witness ==
    /\ remote.op = "set"
    /\ remote.received
    /\ remote.pc = "done"
    /\ remote.rpc = "apply"
    /\ remote.applied = <<>>

\* A pass of the sender's wait loop: 10 ms more are spent waiting.
WaitedOn == remote.pc = "wait" /\ remote'.timeout < remote.timeout

\* C18: a sender waiting for the acknowledgement of a remote-control
\* message or for the reply to a query does not wait on once its exit flag
\* is set.
C18_WaitStopsOnExit ==
    [][remote.trigger_exit = 1 => ~WaitedOn]_vars

\* The handshake is over: the sender has returned, and the receiver has
\* no signal of it left to look at and nothing left to put in effect.
HandshakeEnded ==
    /\ remote.pc = "done"
    /\ ~remote.rxusr1
    /\ ~remote.rxusr2
    /\ remote.rpc = "idle"

\* C19: when a remote-control or query handshake has ended, by
\* acknowledgement, by reply or by timeout, none of its control files is
\* left: not the sender's message or query file, not the receiver's reply.
C19_NoControlFileLeft ==
    (HandshakeEnded /\ remote.trigger_exit = 0)
        => /\ remote.files.set = <<>>
           /\ remote.files.query = <<>>
           /\ remote.files.reply = <<>>

\* The interval and the sizes are within the bounds of remote.c 130-141.
IntervalInRange(c) ==
    c.interval >= REMOTE_INTERVAL_MIN /\ c.interval <= REMOTE_INTERVAL_MAX
WidthInRange(c) == c.width >= 1 /\ c.width <= REMOTE_DIMENSION_MAX
HeightInRange(c) == c.height >= 1 /\ c.height <= REMOTE_DIMENSION_MAX

\* C20 as stated: after the receiver has put a message in effect its
\* interval, width and height are within the bounds, whatever the
\* message file held.
C20_InRangeAfterAnyMessage ==
    remote.applied # <<>> => /\ IntervalInRange(control)
                             /\ WidthInRange(control)
                             /\ HeightInRange(control)

\* C20: the bounds are the sender's.  A file written by pv_remote_set
\* holds a width and a height within the bounds and an interval that is 0
\* or within them, and after the receiver has put such a message in effect
\* its interval, width and height (within the bounds before) are within
\* them.  Of itself the receiver only caps the width, so that is within the
\* bounds after any message.
C20_InRangeAfterClampedMessage ==
    /\ (remote.clamped /\ remote.files.set # <<>>)
           => /\ WidthInRange(remote.files.set[1])
              /\ HeightInRange(remote.files.set[1])
              /\ \/ remote.files.set[1].interval = 0
                 \/ IntervalInRange(remote.files.set[1])
    /\ (remote.clamped /\ remote.applied # <<>>)
           => /\ IntervalInRange(control)
              /\ WidthInRange(control)
              /\ HeightInRange(control)
    /\ remote.applied # <<>> => WidthInRange(control)

\* A sender whose interval and height are above the bounds has sent them
\* through pv_remote_set, and the receiver has taken the bounds' values.
C20_Witness ==
    /\ remote.clamped
    /\ remote.applied # <<>>
    /\ remote.settings.interval > REMOTE_INTERVAL_MAX
    /\ remote.settings.height > REMOTE_DIMENSION_MAX
    /\ remote.settings.height_set_manually
    /\ control.interval = REMOTE_INTERVAL_MAX
    /\ control.height = REMOTE_DIMENSION_MAX

\* A handler has run a step of its code.
HandlerWrote ==
    /\ CanRun
    /\ signal.stack # <<>>
    /\ signal'.stack # signal.stack

\* C21: no signal handler writes more than flags and small counters: the
\* stoppage times, each two words long, and the watched descriptors'
\* structures, which the loops read and write, are left alone by every
\* handler.
C21_HandlersWriteOnlyFlags ==
    [][HandlerWrote => /\ signal'.total_stoppage_time
                            = signal.total_stoppage_time
                       /\ watch' = watch]_vars

\* A watched descriptor that is shown: in use, displayable, its item not
\* finished.
Live(w) == ~w.finished /\ ~w.unused /\ w.displayable

\* C22: when the loop works out a rate from a clock value, the time pv had
\* spent stopped by SIGTSTP, up to the reading of that clock value, is in
\* total_stoppage_time and in the stoppage time of every live watched
\* descriptor, however SIGTTOU came in between.
C22_StoppageCountedBeforeRate ==
    signal.main.pc = "rate"
        => /\ signal.total_stoppage_time >= signal.main.stoppage_at_read
           /\ \A k \in 1 .. Len(watch.watching) :
                  Live(watch.watching[k])
                      => watch.watching[k].total_stoppage_time
                             >= signal.main.stoppage_at_read

\* The percentage lies between the two numbers given, both included.
PercentageWithin(low, high) ==
    /\ ~Less(calc.percentage, Whole(low))
    /\ ~Less(Whole(high), calc.percentage)

\* C23, as stated: whenever the size is over 0, the percentage an update
\* calculates is at least 0 and at most 100.
C23_PercentageAtMostHundred ==
    control.size > 0 => PercentageWithin(0, 100)

\* C23, as the code has it: whenever the size is over 0, the percentage an
\* update calculates is at least 0 and at most 100000, and it is at most
\* 100 for as long as no more than the size has been transferred.
C23_PercentageAtMostHundredWithinSize ==
    control.size > 0 =>
        /\ PercentageWithin(0, 100000)
        /\ transfer.transferred <= control.size => PercentageWithin(0, 100)

\* An update has found the whole of the size transferred, and another has
\* found more than that.
C23_Witness ==
    /\ control.size = 2
    /\ calc.prev_transferred = transfer.transferred
    /\ \/ transfer.transferred = 2 /\ calc.percentage = Whole(100)
       \/ transfer.transferred = 3 /\ calc.percentage = Whole(150)

\* With no size known the percentage is at least 0 and under 200.
SawToothInRange ==
    control.size <= 0 =>
        ~Less(calc.percentage, Whole(0)) /\ Less(calc.percentage, Whole(200))

\* C24: whenever the size is 0 or less, the percentage is at least 0 and
\* under 200 at every update, and if data keeps flowing it comes to both
\* ends of what it ranges over: to 198, the most it takes under 200, and
\* from there back to 0.
C24_SawToothReachesBothEnds ==
    /\ []SawToothInRange
    /\ <>(calc.percentage = Whole(198) /\ <>(calc.percentage = Whole(0)))

\* Data has flowed for long enough for the percentage to be at its top.
C24_Witness ==
    /\ control.size <= 0
    /\ transfer.transferred > 0
    /\ calc.prev_transferred = transfer.transferred
    /\ calc.percentage = Whole(198)

\* The entry of the k-th watched item was closed and in use, and this step
\* takes it out of use or takes its slot for another descriptor.
Reclaimed(k) ==
    /\ watch.watching[k].closed /\ ~watch.watching[k].unused
    /\ watch'.watching[k].unused \/ ~watch'.watching[k].closed

\* The time since the entry of the k-th watched item was marked closed.
SinceClosed(k) == watch.cur_time - watch.watching[k].end_time

WatchLoopLeft == watch.pc \in {"end", "done"}

\* C26: when a single descriptor of a process is watched and the process
\* has gone, so that the descriptor was found closed, the loop is left
\* with exit status 0 no more than 2 intervals after that.
C26_LeftWithinTwoIntervals ==
    \A k \in 1 .. Len(watch.watching) :
        (/\ Len(watch.watching) = 1
         /\ watch.watching[k].fd >= 0
         /\ watch.watching[k].closed
         /\ WatchLoopLeft)
        => /\ status = {}
           /\ SinceClosed(k) <= 2 * control.interval

\* The bytes taken from the input so far: the files read to their ends and
\* the current file up to its offset.
Consumed ==
    Concat(SubSeq(env.files, 1, env.cur - 1))
        \o SubSeq(CurFile(env), 1, env.in_off)

\* The bytes of the buffer read and not yet written.
Unwritten ==
    SubSeq(transfer.buffer, transfer.write_position + 1,
           transfer.read_position)

\* C27: with read() and select() calls interrupted by signals (EINTR or
\* EAGAIN), every byte taken from the input is either in the buffer, read
\* and not yet written, or has been written to the output, in order.
C27_NoByteLostOnInterrupt ==
    (PlainCopy /\ hist.read_errno = NoError /\ hist.write_errno = NoError)
        => Consumed = env.out \o Unwritten

\* No read or write has failed and the consumer of the output is there.
NothingFailed ==
    /\ flags.pipe_closed = 0
    /\ hist.read_errno = NoError
    /\ hist.write_errno = NoError

C29_NothingAfterPipeClosed ==
    [][flags.pipe_closed = 1 =>
         /\ env'.cur = env.cur
         /\ env'.in_off = env.in_off
         /\ env'.out = env.out]_vars

\* Both senders have signalled the receiver and neither has yet looked
\* for its answer, and the receiver has dealt with every SIGUSR2 it has
\* taken note of.
BothSentAndHandled ==
    /\ \A p \in Senders :
         /\ remote.senders[p].pc = "wait"
         /\ remote.senders[p].timeout = RemoteTimeout
    /\ ~remote.rxusr2
    /\ remote.rpc = "idle"

\* C30: when two senders signal the same receiver at nearly the same
\* time, the message of each is applied by the receiver and each sender
\* is sent its acknowledgement.
C30_BothAppliedAndAcknowledged ==
    BothSentAndHandled =>
        \A p \in Senders : p \in remote.applied /\ p \in remote.acknowledged

\* The receiver has dealt with a SIGUSR1 in this step.
Usr1Handled == remote.rxusr1 /\ ~remote'.rxusr1

\* C31 as stated: a pv in the middle of a transfer, not in query mode, that
\* deals with an incoming SIGUSR1 message keeps its transferred count, its
\* elapsed time and its size.
C31_Usr1LeavesStateAlone ==
    [][Usr1Handled => /\ transfer'.transferred = transfer.transferred
                      /\ transfer'.elapsed_seconds = transfer.elapsed_seconds
                      /\ control'.size = control.size]_vars

\* The CONT handler walks the watched descriptors in this step.
Walked ==
    /\ signal.stack # <<>>
    /\ Running.handler = "CONT"
    /\ Running.pc = 4
    /\ signal'.stack = Goto(5)

\* C32 as stated: the CONT handler never walks the array of a watched
\* process while the loop is between realloc and the storing of the new
\* pointer, or in the middle of sorting the array.
C32_WalkNeverMidScan ==
    [][Walked => watch.scan.pc \notin {"extended", "sorting"}]_vars

\* The separators among the first n bytes of what was written.
RECURSIVE SeparatorsIn(_, _)
SeparatorsIn(bytes, sep) ==
    IF bytes = <<>> THEN 0
    ELSE (IF Head(bytes) = sep THEN 1 ELSE 0) + SeparatorsIn(Tail(bytes), sep)

\* The complete lines the consumer of the pipe has read so far.
LinesRead ==
    SeparatorsIn(SubSeq(env.out, 1, Len(env.out) - env.pipe_unread),
                 Separator(control))

\* C33 as stated: in line mode with a pipe as output, the line count shown
\* at a tick is at most the number of complete lines the consumer has read
\* from the pipe.
C33_LinesShownAtMostRead ==
    (control.linemode /\ env.output_is_pipe /\ ~env.reader_gone)
        => display.transferred <= LinesRead

\* C34 as stated: in store-and-forward mode the program does not end after
\* the first pass when that pass has stored the whole input in the store
\* file: the second pass runs.
C34_SecondPassAfterWholeInput ==
    (loop.saf.pass = 1 /\ loop.pc = "ended") => env.out # Concat(env.files)

\* C34: in store-and-forward mode the program ends after the first pass
\* only with a return value other than 0 (an error or a signal in the first
\* pass, or an original destination that cannot be opened); otherwise the
\* second pass runs, and when it ends with no error bit set and the reader
\* of the destination has not gone away, the destination holds the input.
C34_SecondPassAfterCleanFirstPass ==
    /\ (loop.saf.pass = 1 /\ loop.pc = "ended") => loop.saf.retcode # {}
    /\ (loop.saf.pass = 2 /\ loop.pc = "done" /\ status = {}
            /\ flags.pipe_closed = 0)
           => env.out = loop.saf.input

\* C34's case: the second pass has run to its end and has forwarded the
\* whole input, which was stored in the first.
C34_Witness ==
    /\ loop.saf.pass = 2
    /\ loop.pc = "done"
    /\ status = {}
    /\ env.files = <<loop.saf.input>>
    /\ env.out = loop.saf.input
    /\ Len(env.out) > 0

\* The receiver puts the settings of a message in effect in this step.
SettingsApplied == remote.rpc = "apply" /\ remote'.rpc = "idle"

\* C35 as stated: a message whose name, format or extra display is empty
\* leaves the receiver's name, format string or extra display as it was.
C35_EmptyTextLeavesSetting ==
    [][SettingsApplied =>
         LET m == remote.msgbuf[1]
         IN  /\ m.name = NoText => control'.name = control.name
             /\ m.format = NoText
                    => control'.format_string = control.format_string
             /\ m.extra_display = NoText
                    => control'.extra_display_spec
                           = control.extra_display_spec]_vars

\* C35: once a message is put in effect the receiver's name, format
\* string and extra display are those of the message, an empty one leaving
\* the receiver with none; the size and the interval are left as they were
\* by a message that holds 0 for them.
C35_TextReplacedNumbersKept ==
    [][SettingsApplied =>
         LET m == remote.msgbuf[1]
         IN  /\ control'.name = m.name
             /\ control'.format_string = m.format
             /\ control'.extra_display_spec = m.extra_display
             /\ m.size = 0 => control'.size = control.size
             /\ m.interval = 0 => control'.interval = control.interval
             /\ m.rate_limit = 0 => control'.rate_limit = control.rate_limit]_vars

\* C35's case: a message with no name, no format and no extra display has
\* been put in effect in a receiver that had all three.
C35_Witness ==
    /\ remote.applied # <<>>
    /\ remote.applied[1].name = NoText
    /\ remote.applied[1].format = NoText
    /\ remote.applied[1].extra_display = NoText
    /\ remote.applied[1].interval = 0
    /\ control.name = NoText
    /\ control.format_string = NoText
    /\ control.interval = REMOTE_INTERVAL_MIN

\* The last clock reading of a run whose refreshes are followed.
RefreshHorizon == 4

\* A copy of a file displayed every 2 seconds, the clock read at any
\* later time on each pass of the loop.
InitRefresh ==
    InitWith({[DefaultControl EXCEPT !.interval = 2]}, {GoodFile}, BOOLEAN,
             0 .. RefreshHorizon, {})

SpecRefresh == InitRefresh /\ [][Next]_vars

\* C36 as stated: between two successive refreshes of the main loop that
\* are not the final one, at least one display interval elapses.
C36_IntervalBetweenRefreshes ==
    hist.displayed_before >= 0
        => hist.displayed_at - hist.displayed_before >= control.interval

\* C36: the refreshes that are not the final one are at most one to each
\* interval since the start: the k-th of them is no earlier than k
\* intervals after the loop began, and none is earlier than the one
\* before it.
C36_OneRefreshPerIntervalSinceStart ==
    /\ hist.displays > 0
           => hist.displayed_at >= hist.displays * control.interval
    /\ hist.displayed_before <= hist.displayed_at

\* C36's case: a refresh that came late has been followed by the next
\* less than one interval after it.
C36_Witness ==
    /\ hist.displays >= 2
    /\ hist.displayed_before >= 0
    /\ hist.displayed_at - hist.displayed_before < control.interval

\* Settings that count lines and stop at a size of one or of two lines.
LineStopControls ==
    {[DefaultControl EXCEPT !.linemode = TRUE, !.stop_at_size = TRUE,
                            !.size = n] : n \in {1, 2}}

\* A file of two lines.
TwoLines == [files |-> <<<<"a", "nl", "a", "nl">>>>, bad |-> <<{}>>]

\* The most lines the loop counts before it is left alone.
MaxCounted == 4

InitLineStop ==
    InitWith(LineStopControls, {TwoLines}, BOOLEAN, 0 .. MaxTime, {})

\* The loop, followed while its count of lines is below MaxCounted: each
\* pass made after the size is reached adds to the count (loop.c 392-395,
\* lineswritten being left as the last write set it).
NextLineStop ==
    \/ transfer.total_written < MaxCounted
           /\ (LoopTop \/ Transfer \/ Post \/ Display \/ LoopEnd)
    \/ pv_sig_term
    \/ ConsumerRead
    \/ ConsumerClose

SpecLineStop == InitLineStop /\ [][NextLineStop]_vars

\* The lines that have reached the output.
LinesWritten == SeparatorsIn(env.out, Separator(control))

\* C37 as stated: with stop-at-size in line mode the size cuts the transfer
\* short neither by bytes nor by lines: a loop that has run to its end has
\* written the whole input.
C37_SizeCutsNothingInLineMode ==
    (RanToEnd /\ status = {} /\ control.linemode /\ control.stop_at_size)
        => env.out = Concat(env.files)

\* C37: with stop-at-size in line mode the size is a number of lines that
\* still ends the transfer: no more than size lines reach the output, and
\* a loop that has run to its end with no error has written the whole
\* input or exactly size lines of it.
C37_SizeCutsByLines ==
    (control.linemode /\ control.stop_at_size /\ control.size > 0) =>
        /\ LinesWritten <= control.size
        /\ (RanToEnd /\ status = {})
               => \/ env.out = Concat(env.files)
                  \/ LinesWritten = control.size

\* C37's case: the loop has run to its end having written size lines, and
\* the input holds more.
C37_Witness ==
    /\ control.linemode
    /\ control.stop_at_size
    /\ RanToEnd
    /\ status = {}
    /\ LinesWritten = control.size
    /\ Len(env.out) < Len(Concat(env.files))

\* A copy shown on a terminal that is resized as it runs, the width taken
\* from the terminal or set by hand.
InitResize ==
    InitWith({DefaultControl,
              [DefaultControl EXCEPT !.width_set_manually = TRUE]},
             {GoodFile}, BOOLEAN, {0, 1}, {})

NextResize == Next \/ pv_sig_winch

SpecResize == InitResize /\ [][NextResize]_vars

\* The display is produced in this step.
Refreshed == loop.pc = "display" /\ loop'.pc = "top"

\* C38 as stated: when a resize was signalled and the terminal is found to
\* be wider than before, the next refresh parses the format again.
C38_WiderForcesReparse ==
    [][(Refreshed /\ flags.terminal_resized = 1
            /\ control'.width > control.width)
           => display'.reparsed]_vars

\* C38: a refresh of the main loop parses the format again exactly when
\* reparse_display was set, which a resize does not do: a resize only
\* clears its flag and sets the width, at most PVDISPLAY_WIDTH_MAX, and
\* the height, each unless set by hand.
C38_ResizeSetsSizeOnly ==
    [][Refreshed =>
         /\ display'.reparsed = (flags.reparse_display # 0)
         /\ flags'.terminal_resized = 0
         /\ flags'.reparse_display = 0
         /\ control'.width <= Max(control.width, PVDISPLAY_WIDTH_MAX)
         /\ control.width_set_manually => control'.width = control.width
         /\ flags.terminal_resized = 0 => control' = control]_vars

\* C38's case: the terminal was found wider at a refresh, which did not
\* parse the format again.
C38_Witness ==
    /\ display.output_produced
    /\ ~display.reparsed
    /\ flags.terminal_resized = 0
    /\ control.width > DefaultControl.width
    /\ loop.pc = "top"

\* Settings that skip read errors, the option given once and given twice.
TraceControls ==
    {[DefaultControl EXCEPT !.skip_errors = n] : n \in {1, 2}}

\* Files with unreadable bytes copied with these settings.
InitTrace ==
    InitWith(TraceControls, {BadFile, TwoBadFiles}, BOOLEAN, 0 .. MaxTime, {})

SpecTrace == InitTrace /\ [][Next]_vars

\* A range of the input is skipped in this step.
RangeSkipped == hist'.skipped > hist.skipped

\* C39 as stated: the trace of a skipped range is emitted when skip-errors
\* is 2 or more and is not emitted when skip-errors is 1.
C39_TraceFromTwo ==
    [][RangeSkipped =>
         /\ control.skip_errors >= 2 => hist'.traces > hist.traces
         /\ control.skip_errors = 1 => hist'.traces = hist.traces]_vars

\* C39: the trace of a skipped range is emitted when skip-errors is 1 and
\* is not emitted when skip-errors is 2 or more.
C39_TraceOnlyAtOne ==
    [][RangeSkipped =>
         /\ control.skip_errors = 1 => hist'.traces > hist.traces
         /\ control.skip_errors >= 2 => hist'.traces = hist.traces]_vars

\* C39's case: with skip-errors at 2 the loop has ended having skipped
\* unreadable bytes, and no trace was emitted.
C39_Witness ==
    /\ control.skip_errors = 2
    /\ loop.pc = "done"
    /\ hist.skipped > 0
    /\ hist.warnings > 0
    /\ hist.traces = 0

====
